---------------------------- MODULE Spec2Model ----------------------------
(***************************************************************************)
(* Anvil Rust shell: the REPL engine (src/src/repl.rs), its error          *)
(* categories (src/src/error.rs) and the display strings of shell objects  *)
(* (src/src/objects.rs).                                                   *)
(*                                                                         *)
(* Text is a sequence of one-character strings, so that trim, starts_with, *)
(* ends_with, contains, str::parse and slicing are computed, not assumed.  *)
(* A ShellObject is a record [tag, v].                                     *)
(***************************************************************************)
EXTENDS Integers, Sequences, FiniteSets, TLC

VARIABLES
    session,                \* position of the caller: new / running / exited / failed / aborted
    variables,              \* ReplContext.variables   (name -> ShellObject)
    functions,              \* ReplContext.functions   (name -> source text)
    imports,                \* ReplContext.imports
    code_history,           \* ReplContext.code_history
    multiline_mode,         \* ReplContext.multiline_mode
    prompt_multiline,       \* AnvilPrompt.multiline_mode
    continuation_buffer,    \* ReplContext.continuation_buffer
    exe_exists,             \* the derived executable of the latest pipeline call is on disk
    steps,                  \* number of inputs handled so far
    last,                   \* what the latest input did (observation only)
    fn_in,                  \* input of the pure function under check
    fn_out                  \* its result

vars == <<session, variables, functions, imports, code_history, multiline_mode,
          prompt_multiline, continuation_buffer, exe_exists, steps, last,
          fn_in, fn_out>>

replVars == <<session, variables, functions, imports, code_history, multiline_mode,
              prompt_multiline, continuation_buffer, exe_exists, steps, last>>

(***************************************************************************)
(* Bounds of the model.                                                    *)
(***************************************************************************)
MaxSteps == 3       \* inputs handled in one run of the engine
MaxLen == 3         \* length of the generated texts
MaxInt == 12        \* magnitude of the generated Integer values
MaxMant == 12       \* mantissa of the generated Float values
MaxExp == 1         \* magnitude of the decimal exponent of the generated Float values
FloatDigits == 3    \* digits kept behind the leading digits of a rounded quotient
MaxCommands == 2    \* commands given to one shell
MaxOffset == 3      \* distance of the generated Integers from 0 and from the limits of i64

(***************************************************************************)
(* Text primitives (Rust str).                                             *)
(***************************************************************************)
WhiteSpace == {" ", "\t", "\n", "\r"}

Digit == {"0", "1", "2", "3", "4", "5", "6", "7", "8", "9"}

Letter == {"a", "b", "c", "d", "e", "f", "g", "h", "i", "j", "k", "l", "m",
           "n", "o", "p", "q", "r", "s", "t", "u", "v", "w", "x", "y", "z",
           "A", "E", "F", "I", "N", "T", "Y"}

WordChar == Letter \cup Digit \cup {"_"}

DigitVal(c) ==
    CASE c = "0" -> 0 [] c = "1" -> 1 [] c = "2" -> 2 [] c = "3" -> 3
      [] c = "4" -> 4 [] c = "5" -> 5 [] c = "6" -> 6 [] c = "7" -> 7
      [] c = "8" -> 8 [] c = "9" -> 9

DigitChar(d) == <<"0", "1", "2", "3", "4", "5", "6", "7", "8", "9">>[d + 1]

Lower(c) ==
    CASE c = "A" -> "a" [] c = "E" -> "e" [] c = "F" -> "f" [] c = "I" -> "i"
      [] c = "N" -> "n" [] c = "T" -> "t" [] c = "Y" -> "y" [] OTHER -> c

LowerText(s) == [i \in 1..Len(s) |-> Lower(s[i])]

\* the number of characters of s from position from that lie in set
RunLen(s, from, set) ==
    LET stop == {i \in from..Len(s) : s[i] \notin set}
    IN  IF stop = {} THEN Len(s) - from + 1
        ELSE (CHOOSE i \in stop : \A j \in stop : i <= j) - from

\* str::trim
Trim(s) ==
    LET keep == {i \in 1..Len(s) : s[i] \notin WhiteSpace}
    IN  IF keep = {} THEN <<>>
        ELSE SubSeq(s, CHOOSE i \in keep : \A j \in keep : i <= j,
                       CHOOSE i \in keep : \A j \in keep : i >= j)

Drop(s, n) == SubSeq(s, n + 1, Len(s))

StartsWith(s, p) == Len(s) >= Len(p) /\ SubSeq(s, 1, Len(p)) = p

EndsWith(s, p) == Len(s) >= Len(p) /\ SubSeq(s, Len(s) - Len(p) + 1, Len(s)) = p

Contains(s, p) == \E i \in 1..(Len(s) - Len(p) + 1) : SubSeq(s, i, i + Len(p) - 1) = p

AllDigits(s) == \A i \in 1..Len(s) : s[i] \in Digit

\* the value of the first n digits of s
RECURSIVE DigitsValueTo(_, _)
DigitsValueTo(s, n) ==
    IF n = 0 THEN 0 ELSE DigitsValueTo(s, n - 1) * 10 + DigitVal(s[n])

DigitsValue(s) == DigitsValueTo(s, Len(s))

RECURSIVE NatToDigits(_)
NatToDigits(n) ==
    IF n < 10 THEN <<DigitChar(n)>>
    ELSE NatToDigits(n \div 10) \o <<DigitChar(n % 10)>>

\* s without its leading zeros, keeping one digit
StripZeros(s) ==
    LET z == RunLen(s, 1, {"0"})
    IN  IF z = Len(s) THEN SubSeq(s, Len(s), Len(s)) ELSE Drop(s, z)

Zeros(n) == [i \in 1..n |-> "0"]

\* a <= b for two digit texts without leading zeros
DigitsLeq(a, b) ==
    \/ Len(a) < Len(b)
    \/ /\ Len(a) = Len(b)
       /\ LET diff == {i \in 1..Len(a) : a[i] # b[i]}
          IN  \/ diff = {}
              \/ LET d == CHOOSE i \in diff : \A j \in diff : i <= j
                 IN  DigitVal(a[d]) < DigitVal(b[d])

\* the digits of i64::MAX = 9223372036854775807 and of -i64::MIN
I64MaxDigits == <<"9", "2", "2", "3", "3", "7", "2", "0", "3", "6",
                  "8", "5", "4", "7", "7", "5", "8", "0", "7">>

I64MinDigits == <<"9", "2", "2", "3", "3", "7", "2", "0", "3", "6",
                  "8", "5", "4", "7", "7", "5", "8", "0", "8">>

(***************************************************************************)
(* str::parse::<i64>: an optional sign, at least one digit, nothing else,  *)
(* and the value within the 64-bit range.                                  *)
(***************************************************************************)
NoParse == [ok |-> FALSE, v |-> 0]

ParseI64(s) ==
    LET signed == s # <<>> /\ s[1] \in {"+", "-"}
        neg    == s # <<>> /\ s[1] = "-"
        body   == IF signed THEN Drop(s, 1) ELSE s
    IN  IF body = <<>> \/ ~AllDigits(body) THEN NoParse
        ELSE IF ~DigitsLeq(StripZeros(body), IF neg THEN I64MinDigits ELSE I64MaxDigits)
             THEN NoParse
             ELSE [ok |-> TRUE,
                   v  |-> IF neg THEN 0 - DigitsValue(body) ELSE DigitsValue(body)]

(***************************************************************************)
(* f64.  A finite value is its shortest decimal: sign, mantissa m without  *)
(* trailing zeros, decimal exponent e (value m * 10^e); for texts this     *)
(* short the nearest f64 prints back as the same decimal.                  *)
(***************************************************************************)
RECURSIVE Normalize(_, _)
Normalize(m, e) ==
    IF m = 0 THEN <<0, 0>>
    ELSE IF m % 10 = 0 THEN Normalize(m \div 10, e + 1)
    ELSE <<m, e>>

Finite(neg, m, e) ==
    [kind |-> "fin", neg |-> neg, m |-> Normalize(m, e)[1], e |-> Normalize(m, e)[2]]

Infinite(neg) == [kind |-> "inf", neg |-> neg, m |-> 0, e |-> 0]

NaN == [kind |-> "nan", neg |-> FALSE, m |-> 0, e |-> 0]

\* the exponent part: e or E, an optional sign, at least one digit, to the end
ParseExponent(s) ==
    LET sg   == Len(s) >= 2 /\ s[2] \in {"+", "-"}
        body == Drop(s, IF sg THEN 2 ELSE 1)
    IN  IF s = <<>> THEN [ok |-> TRUE, v |-> 0]
        ELSE IF Lower(s[1]) # "e" THEN NoParse
        ELSE IF body = <<>> \/ ~AllDigits(body) THEN NoParse
        ELSE [ok |-> TRUE,
              v  |-> IF sg /\ s[2] = "-" THEN 0 - DigitsValue(body)
                     ELSE DigitsValue(body)]

NoFloat == [ok |-> FALSE, v |-> NaN]

\* the decimal form: digits, an optional point and digits, an optional exponent
ParseDecimal(neg, body) ==
    LET nInt  == RunLen(body, 1, Digit)
        dot   == Len(body) > nInt /\ body[nInt + 1] = "."
        nFrac == IF dot THEN RunLen(body, nInt + 2, Digit) ELSE 0
        used  == nInt + (IF dot THEN 1 ELSE 0) + nFrac
        ex    == ParseExponent(Drop(body, used))
    IN  IF nInt + nFrac = 0 \/ ~ex.ok THEN NoFloat
        ELSE [ok |-> TRUE,
              v  |-> Finite(neg,
                            DigitsValue(SubSeq(body, 1, nInt)
                                        \o SubSeq(body, nInt + 2, nInt + 1 + nFrac)),
                            ex.v - nFrac)]

\* str::parse::<f64>
ParseF64(s) ==
    LET signed == s # <<>> /\ s[1] \in {"+", "-"}
        neg    == s # <<>> /\ s[1] = "-"
        body   == IF signed THEN Drop(s, 1) ELSE s
        low    == LowerText(body)
    IN  IF body = <<>> THEN NoFloat
        ELSE IF low = <<"n", "a", "n">> THEN [ok |-> TRUE, v |-> NaN]
        ELSE IF low = <<"i", "n", "f">>
                \/ low = <<"i", "n", "f", "i", "n", "i", "t", "y">>
             THEN [ok |-> TRUE, v |-> Infinite(neg)]
        ELSE ParseDecimal(neg, body)

(***************************************************************************)
(* ShellObject and its display string.                                     *)
(***************************************************************************)
StringObj(s)  == [tag |-> "String",  v |-> s]
IntegerObj(i) == [tag |-> "Integer", v |-> i]
FloatObj(f)   == [tag |-> "Float",   v |-> f]
BooleanObj(b) == [tag |-> "Boolean", v |-> b]
UnitObj       == [tag |-> "Unit",    v |-> <<>>]

\* i64::to_string
IntToString(i) ==
    IF i < 0 THEN <<"-">> \o NatToDigits(0 - i) ELSE NatToDigits(i)

\* f64::to_string: the shortest decimal, never in exponent form
FloatToString(f) ==
    LET d    == NatToDigits(f.m)
        k    == 0 - f.e
        sign == IF f.neg THEN <<"-">> ELSE <<>>
    IN  CASE f.kind = "nan" -> <<"N", "a", "N">>
          [] f.kind = "inf" -> sign \o <<"i", "n", "f">>
          [] OTHER ->
               sign \o
               (IF f.e >= 0 THEN d \o Zeros(IF f.m = 0 THEN 0 ELSE f.e)
                ELSE IF Len(d) > k
                     THEN SubSeq(d, 1, Len(d) - k) \o <<".">>
                          \o SubSeq(d, Len(d) - k + 1, Len(d))
                     ELSE <<"0", ".">> \o Zeros(k - Len(d)) \o d)

BoolToString(b) ==
    IF b THEN <<"t", "r", "u", "e">> ELSE <<"f", "a", "l", "s", "e">>

\* [T]::join
RECURSIVE Join(_, _)
Join(texts, sep) ==
    IF texts = <<>> THEN <<>>
    ELSE IF Len(texts) = 1 THEN texts[1]
    ELSE texts[1] \o sep \o Join(Tail(texts), sep)

\* a Map holds its entries [k, v] in the iteration order of its HashMap
RECURSIVE to_display_string(_)
to_display_string(o) ==
    CASE o.tag = "String"  -> o.v
      [] o.tag = "Integer" -> IntToString(o.v)
      [] o.tag = "Float"   -> FloatToString(o.v)
      [] o.tag = "Boolean" -> BoolToString(o.v)
      [] o.tag = "Unit"    -> <<"(", ")">>
      [] o.tag = "Array"   ->
           <<"[">> \o Join([i \in 1..Len(o.v) |-> to_display_string(o.v[i])],
                           <<",", " ">>) \o <<"]">>
      [] o.tag = "Map"     ->
           <<"{">> \o Join([i \in 1..Len(o.v) |->
                               o.v[i].k \o <<":", " ">> \o to_display_string(o.v[i].v)],
                           <<",", " ">>) \o <<"}">>
      [] o.tag = "File"      -> <<"F", "i", "l", "e", "(">> \o o.v.path \o <<")">>
      [] o.tag = "Directory" ->
           <<"D", "i", "r", "e", "c", "t", "o", "r", "y", "(">> \o o.v.path \o <<")">>
      [] o.tag = "Path"      -> o.v.path
      [] o.tag = "Process"   ->
           <<"P", "r", "o", "c", "e", "s", "s", "(", "p", "i", "d", "=">>
           \o IntToString(o.v.pid) \o <<",", " ", "n", "a", "m", "e", "=">>
           \o o.v.name \o <<")">>
      [] o.tag = "Command"   ->
           <<"C", "o", "m", "m", "a", "n", "d", "(">> \o o.v.name \o <<")">>
      [] o.tag = "Environment" ->
           <<"E", "n", "v", "i", "r", "o", "n", "m", "e", "n", "t", "(">>
           \o IntToString(Len(o.v.vars)) \o <<" ", "v", "a", "r", "s", ")">>
      [] o.tag = "Function"  ->
           <<"F", "u", "n", "c", "t", "i", "o", "n", "(">> \o o.v.name \o <<")">>
      [] o.tag = "Error"     -> <<"E", "r", "r", "o", "r", ":", " ">> \o o.v

(***************************************************************************)
(* ReplEngine::parse_output.  The slice &trimmed[1..len-1] aborts the      *)
(* process when its start lies past its end: the result is then Panic.     *)
(***************************************************************************)
Panic == [tag |-> "Panic", v |-> <<>>]

Quote == "\""

\* changed: the float rule is tried before the integer rule
parse_output_float_first(output) ==
    LET trimmed == Trim(output)
        int     == ParseI64(trimmed)
        flt     == ParseF64(trimmed)
    IN  IF trimmed = <<>> THEN UnitObj
        ELSE IF StartsWith(trimmed, <<Quote>>) /\ EndsWith(trimmed, <<Quote>>)
             THEN IF 1 > Len(trimmed) - 1 THEN Panic
                  ELSE StringObj(SubSeq(trimmed, 2, Len(trimmed) - 1))
        ELSE IF flt.ok THEN FloatObj(flt.v)
        ELSE IF int.ok THEN IntegerObj(int.v)
        ELSE IF trimmed = <<"t", "r", "u", "e">> THEN BooleanObj(TRUE)
        ELSE IF trimmed = <<"f", "a", "l", "s", "e">> THEN BooleanObj(FALSE)
        ELSE StringObj(trimmed)

parse_output(output) ==
    LET trimmed == Trim(output)
        int     == ParseI64(trimmed)
        flt     == ParseF64(trimmed)
    IN  IF trimmed = <<>> THEN UnitObj
        ELSE IF StartsWith(trimmed, <<Quote>>) /\ EndsWith(trimmed, <<Quote>>)
             THEN IF 1 > Len(trimmed) - 1 THEN Panic
                  ELSE StringObj(SubSeq(trimmed, 2, Len(trimmed) - 1))
        ELSE IF int.ok THEN IntegerObj(int.v)
        ELSE IF flt.ok THEN FloatObj(flt.v)
        ELSE IF trimmed = <<"t", "r", "u", "e">> THEN BooleanObj(TRUE)
        ELSE IF trimmed = <<"f", "a", "l", "s", "e">> THEN BooleanObj(FALSE)
        ELSE StringObj(trimmed)

(***************************************************************************)
(* AnvilError (src/src/error.rs): the categories the engine raises.        *)
(***************************************************************************)
EvalError(m)        == [kind |-> "Eval",        msg |-> m]
RuntimeError(m)     == [kind |-> "Runtime",     msg |-> m]
CompilationError(m) == [kind |-> "Compilation", msg |-> m]
ReplError(m)        == [kind |-> "Repl",        msg |-> m]

RecoverableKinds == {"Parse", "InvalidSyntax", "Type", "Command", "ExternalCommand"}

is_recoverable(e) == e.kind \in RecoverableKinds

FatalKinds == {"Interrupted", "Io"}

is_fatal(e) == e.kind \in FatalKinds

\* AnvilResult<ShellObject>, and the abort of the process
Ok(o)    == [ok |-> "ok",    v |-> o]
Err(e)   == [ok |-> "err",   v |-> e]
Aborted  == [ok |-> "panic", v |-> Panic]
NoResult == [ok |-> "none",  v |-> [tag |-> "Absent", v |-> <<>>]]

(***************************************************************************)
(* The fast path of the engine.                                            *)
(***************************************************************************)
\* Regex ^let\s+(\w+)\s*=\s*(.+)$ on a trimmed text: the captures, if it matches
LetCapture(t) ==
    LET w1    == RunLen(t, 4, WhiteSpace)
        name  == 4 + w1
        n     == RunLen(t, name, WordChar)
        eq    == name + n + RunLen(t, name + n, WhiteSpace)
        value == eq + 1 + RunLen(t, eq + 1, WhiteSpace)
    IN  IF /\ StartsWith(t, <<"l", "e", "t">>)
           /\ w1 >= 1
           /\ n >= 1
           /\ eq <= Len(t) /\ t[eq] = "="
           /\ value <= Len(t)
           /\ \A i \in value..Len(t) : t[i] # "\n"
        THEN [ok |-> TRUE, var_name |-> SubSeq(t, name, name + n - 1),
              value_expr |-> SubSeq(t, value, Len(t))]
        ELSE [ok |-> FALSE, var_name |-> <<>>, value_expr |-> <<>>]

evaluate_expression(expr, vs) ==
    LET int == ParseI64(expr)
        flt == ParseF64(expr)
    IN  IF int.ok THEN Ok(IntegerObj(int.v))
        ELSE IF flt.ok THEN Ok(FloatObj(flt.v))
        ELSE IF expr = <<"t", "r", "u", "e">> THEN Ok(BooleanObj(TRUE))
        ELSE IF expr = <<"f", "a", "l", "s", "e">> THEN Ok(BooleanObj(FALSE))
        ELSE IF StartsWith(expr, <<Quote>>) /\ EndsWith(expr, <<Quote>>) /\ Len(expr) >= 2
             THEN Ok(StringObj(SubSeq(expr, 2, Len(expr) - 1)))
        ELSE IF expr \in DOMAIN vs THEN Ok(vs[expr])
        ELSE Err(EvalError("Cannot evaluate expression without compilation"))

\* the right-hand side of a let is evaluated and returned; nothing is stored
try_simple_evaluation(code, vs) ==
    CHOOSE r \in {IF LetCapture(trimmed).ok
                  THEN evaluate_expression(LetCapture(trimmed).value_expr, vs)
                  ELSE evaluate_expression(trimmed, vs) : trimmed \in {Trim(code)}} : TRUE

(***************************************************************************)
(* The compile-execute pipeline.  env is what the toolchain and the file   *)
(* system do during one call: temp (creating the source file), write,      *)
(* compile (rustc: spawn_fail / failed / ok), compile_slow (when rustc     *)
(* returned, more than compile_timeout_ms had elapsed since the start of   *)
(* compile_and_execute), run (spawn_fail / nonzero / ok),                  *)
(* run_slow (longer than execution_timeout_ms), the captured stdout, and   *)
(* the stderr of rustc (diagnostics) and of the program (errors).          *)
(* rustc leaves the executable on disk exactly when it succeeds.           *)
(***************************************************************************)
\* changed: the captured text is left out of the error
WithDetail_dropped(e, text) == [kind |-> e.kind, msg |-> e.msg, detail |-> <<>>]

\* format!("...:\n{}", stderr): the message followed by the captured text
WithDetail(e, text) == [kind |-> e.kind, msg |-> e.msg, detail |-> text]

compile_and_execute_phases(env) ==
    IF env.temp = "fail"
    THEN [result |-> Err(RuntimeError("Failed to create temp file")),
          exe |-> FALSE, compiled |-> 0, ran |-> 0]
    ELSE IF env.write = "fail"
    THEN [result |-> Err(RuntimeError("Failed to write temp file")),
          exe |-> FALSE, compiled |-> 0, ran |-> 0]
    ELSE IF env.compile_slow
    THEN [result |-> Err(CompilationError("Compilation timeout")),
          exe |-> (env.compile = "ok"), compiled |-> 1, ran |-> 0]
    ELSE IF env.compile = "spawn_fail"
    THEN [result |-> Err(CompilationError("Failed to run rustc")),
          exe |-> FALSE, compiled |-> 1, ran |-> 0]
    ELSE IF env.compile = "failed"
    THEN [result |-> Err(WithDetail(CompilationError("Compilation failed"),
                                    env.diagnostics)),
          exe |-> FALSE, compiled |-> 1, ran |-> 0]
    ELSE IF env.run_slow
    THEN [result |-> Err(RuntimeError("Execution timeout")),
          exe |-> TRUE, compiled |-> 1, ran |-> 1]
    ELSE IF env.run = "spawn_fail"
    THEN [result |-> Err(RuntimeError("Failed to execute")),
          exe |-> TRUE, compiled |-> 1, ran |-> 1]
    ELSE IF env.run = "nonzero"
    THEN [result |-> Err(WithDetail(RuntimeError("Runtime error"), env.errors)),
          exe |-> FALSE, compiled |-> 1, ran |-> 1]
    ELSE IF parse_output(env.stdout).tag = "Panic"
    THEN [result |-> Aborted, exe |-> FALSE, compiled |-> 1, ran |-> 1]
    ELSE [result |-> Ok(parse_output(env.stdout)),
          exe |-> FALSE, compiled |-> 1, ran |-> 1]

\* changed: the snippet is stored in the history before the program is run
compile_and_execute_history_first(code, env, history) ==
    [result       |-> compile_and_execute_phases(env).result,
     code_history |-> Append(history, code),
     exe          |-> compile_and_execute_phases(env).exe,
     compiled     |-> compile_and_execute_phases(env).compiled,
     ran          |-> compile_and_execute_phases(env).ran]

\* changed: the snippet is never stored in the history
compile_and_execute_no_history(code, env, history) ==
    [result       |-> compile_and_execute_phases(env).result,
     code_history |-> history,
     exe          |-> compile_and_execute_phases(env).exe,
     compiled     |-> compile_and_execute_phases(env).compiled,
     ran          |-> compile_and_execute_phases(env).ran]

\* the snippet is stored in the history on the one path that returns Ok
compile_and_execute(code, env, history) ==
    [result       |-> compile_and_execute_phases(env).result,
     code_history |-> IF compile_and_execute_phases(env).result.ok = "ok"
                      THEN Append(history, code) ELSE history,
     exe          |-> compile_and_execute_phases(env).exe,
     compiled     |-> compile_and_execute_phases(env).compiled,
     ran          |-> compile_and_execute_phases(env).ran]

\* changed: a failure of the fast path is returned, the pipeline is not run
execute_rust_code_no_escalation(code, env, vs, history, exe) ==
    CHOOSE r \in
        {[result |-> fast, fast |-> fast, pipe_args |-> <<>>,
          pipe |-> NoResult, code_history |-> history, exe |-> exe]
         : fast \in {try_simple_evaluation(code, vs)}} : TRUE

\* try the fast path; on any failure drop its error and run the pipeline
execute_rust_code(code, env, vs, history, exe) ==
    CHOOSE r \in
        {IF fast.ok = "ok"
         THEN [result |-> fast, fast |-> fast, pipe_args |-> <<>>,
               pipe |-> NoResult, code_history |-> history, exe |-> exe]
         ELSE CHOOSE q \in
                  {[result |-> slow.result, fast |-> fast, pipe_args |-> <<code>>,
                    pipe |-> slow.result, code_history |-> slow.code_history,
                    exe |-> slow.exe] : slow \in {compile_and_execute(code, env, history)}}
                  : TRUE
         : fast \in {try_simple_evaluation(code, vs)}} : TRUE

(***************************************************************************)
(* Line classification.                                                    *)
(***************************************************************************)
\* changed: only exit() and quit() are recognised
handle_special_command_exit_only(line) ==
    LET t == Trim(line)
    IN  IF t = <<"e", "x", "i", "t", "(", ")">> \/ t = <<"q", "u", "i", "t", "(", ")">>
        THEN "exit"
        ELSE "none"

handle_special_command(line) ==
    LET t == Trim(line)
    IN  IF t = <<"e", "x", "i", "t", "(", ")">> \/ t = <<"q", "u", "i", "t", "(", ")">>
        THEN "exit"
        ELSE IF \/ t = <<"h", "e", "l", "p", "(", ")">>
                \/ t = <<"c", "l", "e", "a", "r", "(", ")">>
                \/ t = <<"v", "a", "r", "s", "(", ")">>
                \/ t = <<"h", "i", "s", "t", "o", "r", "y", "(", ")">>
        THEN "handled"
        ELSE "none"

is_incomplete_input(line) ==
    LET trimmed == Trim(line)
    IN  \/ EndsWith(trimmed, <<"{">>)
        \/ EndsWith(trimmed, <<"(">>)
        \/ EndsWith(trimmed, <<"[">>)
        \/ (StartsWith(trimmed, <<"l", "e", "t", " ">>) /\ ~Contains(trimmed, <<"=">>))
        \/ (StartsWith(trimmed, <<"f", "n", " ">>) /\ ~Contains(trimmed, <<"{">>))
        \/ EndsWith(trimmed, <<"\\">>)

(***************************************************************************)
(* The inputs of the model: the lines a user types and what the toolchain  *)
(* does to a program.                                                      *)
(***************************************************************************)
LineInt    == <<"4", "2">>
LineLet    == <<"l", "e", "t", " ", "x", " ", "=", " ", "1", "0">>
LineSum    == <<"x", " ", "+", " ", "5">>
LineCall   == <<"f", "(">>
LineBrace  == <<"{">>
LineBrack  == <<" ", "[">>
LineExit   == <<"e", "x", "i", "t", "(", ")">>
LineHelp   == <<"h", "e", "l", "p", "(", ")">>
LineEmpty  == <<" ">>
LineQuit   == <<"q", "u", "i", "t", "(", ")">>
LineClear  == <<"c", "l", "e", "a", "r", "(", ")">>
LineVars   == <<" ", "v", "a", "r", "s", "(", ")">>
LineHistory == <<"h", "i", "s", "t", "o", "r", "y", "(", ")">>

Lines == {LineInt, LineLet, LineSum, LineCall, LineBrace, LineBrack,
          LineExit, LineHelp, LineEmpty, LineQuit, LineClear, LineVars,
          LineHistory}

Stdouts == {<<>>, <<"1", "5", "\n">>, <<Quote>>}

\* what rustc and the program write to stderr when nothing else is said
Stderr == <<"E", "1">>

EnvOf(t, w, c, cs, r, rs, out) ==
    [temp |-> t, write |-> w, compile |-> c, compile_slow |-> cs,
     run |-> r, run_slow |-> rs, stdout |-> out,
     diagnostics |-> Stderr, errors |-> Stderr]

\* one environment per distinguishable course of a pipeline call
Envs ==
    {EnvOf("fail", "ok", "ok", FALSE, "ok", FALSE, <<>>),
     EnvOf("ok", "fail", "ok", FALSE, "ok", FALSE, <<>>),
     EnvOf("ok", "ok", "spawn_fail", FALSE, "ok", FALSE, <<>>),
     EnvOf("ok", "ok", "failed", FALSE, "ok", FALSE, <<>>),
     EnvOf("ok", "ok", "failed", TRUE, "ok", FALSE, <<>>),
     EnvOf("ok", "ok", "ok", TRUE, "ok", FALSE, <<>>),
     EnvOf("ok", "ok", "ok", FALSE, "spawn_fail", FALSE, <<>>),
     EnvOf("ok", "ok", "ok", FALSE, "nonzero", FALSE, <<>>),
     EnvOf("ok", "ok", "ok", FALSE, "nonzero", TRUE, <<>>),
     EnvOf("ok", "ok", "ok", FALSE, "ok", TRUE, <<>>)}
    \cup {EnvOf("ok", "ok", "ok", FALSE, "ok", FALSE, out) : out \in Stdouts}

\* the toolchain acts only when the fast path fails
EnvsFor(code, vs) ==
    IF try_simple_evaluation(code, vs).ok = "ok"
    THEN {EnvOf("ok", "ok", "ok", FALSE, "ok", FALSE, <<>>)}
    ELSE Envs

\* Config::default: repl.prelude, and a user configuration that adds a line
DefaultImports ==
    <<"use std::collections::HashMap;", "use std::path::PathBuf;", "use std::fs;",
      "use std::process::Command;", "use std::io::{self, Write};">>

DefaultPrelude ==
    <<"use std::collections::HashMap;", "use std::path::PathBuf;", "use std::fs;",
      "use std::process::Command;">>

Preludes == {DefaultPrelude, <<"use std::fs;", "use std::env;", "use std::env;">>}

AutoPrint == TRUE

\* the loop of run_interactive before it: push each prelude line not yet present
RECURSIVE MergePrelude(_, _)
MergePrelude(imps, prelude) ==
    IF prelude = <<>> THEN imps
    ELSE IF \E i \in 1..Len(imps) : imps[i] = Head(prelude)
         THEN MergePrelude(imps, Tail(prelude))
         ELSE MergePrelude(Append(imps, Head(prelude)), Tail(prelude))

(***************************************************************************)
(* The observation of the latest input.                                    *)
(***************************************************************************)
Observe(op, line, input, x, shown, returned) ==
    [op |-> op, line |-> line, input |-> input, fast |-> x.fast,
     pipe_args |-> x.pipe_args, pipe |-> x.pipe, result |-> x.result,
     shown |-> shown, returned |-> returned]

NotRun(history, exe) ==
    [result |-> NoResult, fast |-> NoResult, pipe_args |-> <<>>, pipe |-> NoResult,
     code_history |-> history, exe |-> exe]

Pending == [tag |-> "Pending", v |-> <<>>]

NoCall == [f |-> "none", arg |-> <<>>]

InitRepl ==
    /\ session = "new"
    /\ variables = <<>>
    /\ functions = <<>>
    /\ imports = DefaultImports
    /\ code_history = <<>>
    /\ multiline_mode = FALSE
    /\ prompt_multiline = FALSE
    /\ continuation_buffer = <<>>
    /\ exe_exists = FALSE
    /\ steps = 0
    /\ last = Observe("none", <<>>, <<>>, NotRun(<<>>, FALSE), NoResult, NoResult)

Init ==
    /\ InitRepl
    /\ fn_in = NoCall
    /\ fn_out = Pending


(***************************************************************************)
(* run_interactive.                                                        *)
(***************************************************************************)
\* entry: the prelude of the configuration is merged into the imports
Start(prelude) ==
    /\ session = "new"
    /\ session' = "running"
    /\ imports' = MergePrelude(imports, prelude)
    /\ last' = Observe("start", <<>>, <<>>, NotRun(code_history, exe_exists),
                       NoResult, NoResult)
    /\ UNCHANGED <<variables, functions, code_history, multiline_mode,
                   prompt_multiline, continuation_buffer, exe_exists, steps,
                   fn_in, fn_out>>

\* what the loop does with the outcome of execute_rust_code
AfterExecute(r) ==
    CASE r.ok = "ok"  -> [session |-> "running",
                          shown |-> IF AutoPrint THEN r ELSE NoResult,
                          returned |-> NoResult]
      [] r.ok = "err" -> IF is_recoverable(r.v)
                         THEN [session |-> "running", shown |-> r, returned |-> NoResult]
                         ELSE [session |-> "failed", shown |-> NoResult, returned |-> r]
      [] OTHER        -> [session |-> "aborted", shown |-> NoResult, returned |-> NoResult]

\* changed: the buffer is joined to the line but is not cleared
full_input_buffer_kept(buf, line, ml, pml) ==
    IF buf # <<>>
    THEN [text |-> buf \o line, buffer |-> buf, multiline_mode |-> ml,
          prompt_multiline |-> pml]
    ELSE [text |-> line, buffer |-> buf, multiline_mode |-> ml,
          prompt_multiline |-> pml]

\* "Combine with any continuation buffer": the text handed to
\* execute_rust_code and the buffer and flags it is called with
full_input(buf, line, ml, pml) ==
    IF buf # <<>>
    THEN [text |-> buf \o line, buffer |-> <<>>, multiline_mode |-> FALSE,
          prompt_multiline |-> FALSE]
    ELSE [text |-> line, buffer |-> buf, multiline_mode |-> ml,
          prompt_multiline |-> pml]

\* Ok(Signal::Success(buffer)): one pass of the loop
ReadLine(buffer) ==
    /\ session = "running"
    /\ steps < MaxSteps
    /\ steps' = steps + 1
    /\ LET line       == Trim(buffer)
           special    == handle_special_command(line)
           combined   == full_input(continuation_buffer, line, multiline_mode,
                                    prompt_multiline)
           idle       == NotRun(code_history, exe_exists)
       IN  IF line = <<>>
           THEN /\ last' = Observe("empty", buffer, <<>>, idle, NoResult, NoResult)
                /\ UNCHANGED <<session, code_history, multiline_mode, prompt_multiline,
                               continuation_buffer, exe_exists>>
           ELSE IF special = "exit"
           THEN /\ session' = "exited"
                /\ last' = Observe("special", buffer, <<>>, idle, NoResult, NoResult)
                /\ UNCHANGED <<code_history, multiline_mode, prompt_multiline,
                               continuation_buffer, exe_exists>>
           ELSE IF special = "handled"
           THEN /\ last' = Observe("special", buffer, <<>>, idle, NoResult, NoResult)
                /\ UNCHANGED <<session, code_history, multiline_mode, prompt_multiline,
                               continuation_buffer, exe_exists>>
           ELSE IF is_incomplete_input(line)
           THEN /\ continuation_buffer' = continuation_buffer \o line \o <<"\n">>
                /\ multiline_mode' = TRUE
                /\ prompt_multiline' = TRUE
                /\ last' = Observe("buffered", buffer, <<>>, idle, NoResult, NoResult)
                /\ UNCHANGED <<session, code_history, exe_exists>>
           ELSE \E env \in EnvsFor(combined.text, variables) :
                \E x \in {execute_rust_code(combined.text, env, variables,
                                            code_history, exe_exists)} :
                /\ continuation_buffer' = combined.buffer
                /\ multiline_mode' = combined.multiline_mode
                /\ prompt_multiline' = combined.prompt_multiline
                /\ code_history' = x.code_history
                /\ exe_exists' = x.exe
                /\ session' = AfterExecute(x.result).session
                /\ last' = Observe("executed", buffer, combined.text, x,
                                   AfterExecute(x.result).shown,
                                   AfterExecute(x.result).returned)
    /\ UNCHANGED <<variables, functions, imports, fn_in, fn_out>>

\* Ok(Signal::CtrlD)
CtrlD ==
    /\ session = "running"
    /\ steps < MaxSteps
    /\ steps' = steps + 1
    /\ session' = "exited"
    /\ last' = Observe("ctrl_d", <<>>, <<>>, NotRun(code_history, exe_exists),
                       NoResult, NoResult)
    /\ UNCHANGED <<variables, functions, imports, code_history, multiline_mode,
                   prompt_multiline, continuation_buffer, exe_exists, fn_in, fn_out>>

\* changed: an interrupt empties the buffer and leaves the flags as they are
interrupt_flags_kept(buf, ml, pml) ==
    IF buf # <<>>
    THEN [session |-> "running", buffer |-> <<>>, multiline_mode |-> ml,
          prompt_multiline |-> pml]
    ELSE [session |-> "exited", buffer |-> buf, multiline_mode |-> ml,
          prompt_multiline |-> pml]

\* changed: an interrupt ends the session whatever the buffer holds
interrupt_always_exits(buf, ml, pml) ==
    [session |-> "exited", buffer |-> buf, multiline_mode |-> ml,
     prompt_multiline |-> pml]

\* the Ok(Signal::CtrlC) arm
interrupt(buf, ml, pml) ==
    IF buf # <<>>
    THEN [session |-> "running", buffer |-> <<>>, multiline_mode |-> FALSE,
          prompt_multiline |-> FALSE]
    ELSE [session |-> "exited", buffer |-> buf, multiline_mode |-> ml,
          prompt_multiline |-> pml]

CtrlC ==
    /\ session = "running"
    /\ steps < MaxSteps
    /\ steps' = steps + 1
    /\ LET r == interrupt(continuation_buffer, multiline_mode, prompt_multiline)
       IN  /\ session' = r.session
           /\ continuation_buffer' = r.buffer
           /\ multiline_mode' = r.multiline_mode
           /\ prompt_multiline' = r.prompt_multiline
           /\ last' = Observe("ctrl_c", <<>>, <<>>, NotRun(code_history, exe_exists),
                              NoResult, NoResult)
    /\ UNCHANGED <<variables, functions, imports, code_history, exe_exists,
                   fn_in, fn_out>>

\* Err(e) of read_line: the loop returns a Repl error
ReadError ==
    /\ session = "running"
    /\ steps < MaxSteps
    /\ steps' = steps + 1
    /\ session' = "failed"
    /\ last' = Observe("read_error", <<>>, <<>>, NotRun(code_history, exe_exists),
                       NoResult, Err(ReplError("REPL error")))
    /\ UNCHANGED <<variables, functions, imports, code_history, multiline_mode,
                   prompt_multiline, continuation_buffer, exe_exists, fn_in, fn_out>>

(***************************************************************************)
(* execute_line: the entry Shell::execute_command uses, outside the loop.  *)
(***************************************************************************)
ExecuteLine(line) ==
    /\ session \in {"new", "exited", "failed"}
    /\ steps < MaxSteps
    /\ steps' = steps + 1
    /\ IF Trim(line) = <<>> \/ handle_special_command(line) # "none"
           THEN /\ last' = Observe("execute_line", line, <<>>,
                                   NotRun(code_history, exe_exists),
                                   NoResult, Ok(UnitObj))
                /\ UNCHANGED <<session, code_history, exe_exists>>
           ELSE \E env \in EnvsFor(line, variables) :
                \E x \in {execute_rust_code(line, env, variables,
                                            code_history, exe_exists)} :
                /\ code_history' = x.code_history
                /\ exe_exists' = x.exe
                /\ session' = IF x.result.ok = "panic" THEN "aborted" ELSE session
                /\ last' = Observe("execute_line", line, line, x, NoResult,
                                   IF x.result.ok = "panic" THEN NoResult ELSE x.result)
    /\ UNCHANGED <<variables, functions, imports, multiline_mode, prompt_multiline,
                   continuation_buffer, fn_in, fn_out>>

Next ==
    \/ \E prelude \in Preludes : Start(prelude)
    \/ \E buffer \in Lines : ReadLine(buffer)
    \/ CtrlD
    \/ CtrlC
    \/ ReadError
    \/ \E line \in Lines : ExecuteLine(line)

Spec == Init /\ [][Next]_vars

(***************************************************************************)
(* parse_output and to_display_string as functions: the input is drawn in  *)
(* the initial state and one action applies the function to it.            *)
(***************************************************************************)
Alphabet == {"0", "1", "5", "-", ".", "e", "a", Quote, " "}

SpecialTexts ==
    {<<"t", "r", "u", "e">>, <<"f", "a", "l", "s", "e">>,
     <<" ", "t", "r", "u", "e", "\n">>, <<"t", "r", "u", "e", "1">>,
     <<"i", "n", "f">>, <<"-", "i", "n", "f">>, <<"N", "a", "N">>,
     <<"i", "n", "f", "i", "n", "i", "t", "y">>,
     <<"1", "5", "\n">>, <<"+", "1", "5">>, <<"1", "e", "-", "1">>,
     <<"1", ".", "5", "e", "1">>, <<Quote, "h", "i", Quote, "\n">>,
     <<Quote, "1", "5", Quote>>, <<"h", "i">>}

Texts == UNION {[1..n -> Alphabet] : n \in 0..MaxLen} \cup SpecialTexts

FloatValues ==
    {Finite(neg, m, e) : neg \in BOOLEAN, m \in 0..MaxMant, e \in (0 - MaxExp)..MaxExp}
    \cup {Infinite(TRUE), Infinite(FALSE), NaN}

InitFn ==
    /\ InitRepl
    /\ fn_out = Pending
    /\ \/ fn_in \in {[f |-> "parse_output", arg |-> t] : t \in Texts}
       \/ fn_in \in {[f |-> "round_trip", arg |-> IntegerObj(i)] :
                        i \in (0 - MaxInt)..MaxInt}
       \/ fn_in \in {[f |-> "round_trip", arg |-> FloatObj(x)] : x \in FloatValues}
       \/ fn_in \in {[f |-> "round_trip", arg |-> BooleanObj(b)] : b \in BOOLEAN}
       \/ fn_in \in {[f |-> "round_trip", arg |-> StringObj(t)] : t \in Texts}

ParseOutput ==
    /\ fn_in.f = "parse_output"
    /\ fn_out.tag = "Pending"
    /\ fn_out' = parse_output(fn_in.arg)
    /\ UNCHANGED <<replVars, fn_in>>

RoundTrip ==
    /\ fn_in.f = "round_trip"
    /\ fn_out.tag = "Pending"
    /\ fn_out' = parse_output(to_display_string(fn_in.arg))
    /\ UNCHANGED <<replVars, fn_in>>

NextFn == ParseOutput \/ RoundTrip

SpecFn == InitFn /\ [][NextFn]_vars

(***************************************************************************)
(* Claims about the session (Spec).  last describes the latest input: the  *)
(* line read, the text handed to execute_rust_code, the outcome of the     *)
(* fast path, the argument and outcome of the pipeline call, and what the  *)
(* caller showed or returned.                                              *)
(***************************************************************************)
Executions == {"executed", "execute_line"}

\* two objects are the same: the same variant with the same payload
SameObject(a, b) == a.tag = b.tag /\ a.v = b.v

PipelineCalled == last.op \in Executions /\ last.pipe_args # <<>>

\* C1: whenever a call of the pipeline has returned, with a value or with an
\* error, the executable it compiled no longer exists.
C1_ExecutableRemoved == PipelineCalled => ~exe_exists

\* C2: once a line `let NAME = EXPR` has been processed successfully, NAME is
\* bound in the variables of the session to the value of EXPR, so that a later
\* line can refer to it.
C2_LetBindsName ==
    (/\ last.op \in Executions
     /\ LetCapture(Trim(last.input)).ok
     /\ last.result.ok = "ok")
    => /\ LetCapture(Trim(last.input)).var_name \in DOMAIN variables
       /\ SameObject(variables[LetCapture(Trim(last.input)).var_name], last.result.v)

\* C3: a line whose evaluation fails leaves the variables, the functions, the
\* imports and the history exactly as they were before the line.
C3_FailedLineLeavesContext ==
    [][(last'.op \in Executions /\ last'.result.ok = "err")
       => /\ variables' = variables
          /\ functions' = functions
          /\ imports' = imports
          /\ code_history' = code_history]_vars

C3_Witness ==
    /\ last.op = "executed"
    /\ last.fast.ok = "err"
    /\ last.pipe.ok = "err"
    /\ code_history # <<>>

\* C4: in the interactive loop a failure of the pipeline is shown and the
\* session goes on; compilation and runtime failures do not end it.
C4_PipelineFailureContinues ==
    (last.op = "executed" /\ last.pipe.ok = "err")
    => (session = "running" /\ last.shown.ok = "err")

\* C5: when the fast evaluator fails on a complete line, its error is neither
\* shown nor returned, and the pipeline is called exactly once, with the whole
\* text of the line.
C5_FastFailureEscalates ==
    (last.op \in Executions /\ last.fast.ok = "err")
    => /\ last.pipe_args = <<last.input>>
       /\ last.pipe.ok # "none"
       /\ last.shown.ok = "err" => last.shown.v.kind # "Eval"
       /\ last.returned.ok = "err" => last.returned.v.kind # "Eval"

C5_Witness ==
    /\ last.op = "executed"
    /\ last.input = LineSum
    /\ last.fast.ok = "err"
    /\ last.fast.v.kind = "Eval"
    /\ last.pipe_args = <<LineSum>>
    /\ last.shown.ok = "ok"

OpensBracket(line) ==
    \/ EndsWith(Trim(line), <<"{">>)
    \/ EndsWith(Trim(line), <<"(">>)
    \/ EndsWith(Trim(line), <<"[">>)

\* C6: a line that ends in an opening brace, parenthesis or bracket is put in
\* the continuation buffer and is not evaluated on its own, whichever entry
\* receives it: the interactive loop or execute_line.
C6_OpenBracketBuffered ==
    (last.op \in {"buffered", "executed", "execute_line"} /\ OpensBracket(last.line))
    => /\ last.op = "buffered"
       /\ last.fast.ok = "none"
       /\ last.pipe_args = <<>>
       /\ EndsWith(continuation_buffer, Trim(last.line) \o <<"\n">>)

\* C7: an interrupt with text in the continuation buffer empties the buffer,
\* leaves multi-line mode and keeps the session running with its variables and
\* history untouched; an interrupt with an empty buffer ends the session.
C7_Interrupt ==
    [][last'.op = "ctrl_c"
       => IF continuation_buffer # <<>>
          THEN /\ continuation_buffer' = <<>>
               /\ ~multiline_mode'
               /\ ~prompt_multiline'
               /\ session' = "running"
               /\ variables' = variables
               /\ code_history' = code_history
          ELSE session' = "exited"]_vars

C7_Witness ==
    /\ last.op = "ctrl_c"
    /\ session = "running"
    /\ continuation_buffer = <<>>
    /\ ~multiline_mode

\* C8 as stated: every line processed successfully, by the fast evaluator or
\* by the pipeline, is appended to the history in order, and a failed line
\* adds nothing.
C8_EverySuccessRecorded ==
    [][last'.op \in Executions
       => code_history' = IF last'.result.ok = "ok"
                          THEN Append(code_history, last'.input)
                          ELSE code_history]_vars

\* C8: every line the pipeline processed successfully is appended to the
\* history in order; a line the fast evaluator answered is not recorded, and a
\* failed line adds nothing.
C8_PipelineSuccessRecorded ==
    [][last'.op \in Executions
       => code_history' = IF last'.pipe.ok = "ok"
                          THEN Append(code_history, last'.input)
                          ELSE code_history]_vars

C8_Witness ==
    /\ code_history = <<LineSum, LineSum>>
    /\ last.op = "executed"
    /\ last.fast.ok = "ok"

(***************************************************************************)
(* Claims about parse_output and the display strings (SpecFn).             *)
(***************************************************************************)
Parsed(f) == fn_in.f = f /\ fn_out.tag # "Pending"

QuoteDelimited(t) == t # <<>> /\ t[1] = Quote /\ t[Len(t)] = Quote

TrueText == <<"t", "r", "u", "e">>

FalseText == <<"f", "a", "l", "s", "e">>

\* C9: parse_output maps the captured output to a Value by the first rule that
\* matches: empty after trimming -> Unit; starts and ends with a double quote ->
\* String of the content between the quotes; parses as i64 -> Integer; parses as
\* f64 -> Float; true / false -> Boolean; anything else -> String of the trimmed
\* text.
C9_ParseOutputRules ==
    Parsed("parse_output") =>
        LET t == Trim(fn_in.arg)
        IN  IF t = <<>> THEN fn_out.tag = "Unit"
            ELSE IF QuoteDelimited(t)
                 THEN fn_out.tag = "String" /\ fn_out.v = SubSeq(t, 2, Len(t) - 1)
            ELSE IF ParseI64(t).ok
                 THEN fn_out.tag = "Integer" /\ fn_out.v = ParseI64(t).v
            ELSE IF ParseF64(t).ok
                 THEN fn_out.tag = "Float" /\ fn_out.v = ParseF64(t).v
            ELSE IF t \in {TrueText, FalseText}
                 THEN fn_out.tag = "Boolean" /\ fn_out.v = (t = TrueText)
            ELSE fn_out.tag = "String" /\ fn_out.v = t

\* the value the round trip returns is the value it started from


\* C10 as stated: for every Integer, Float, Boolean and String value v,
\* parse_output(v.to_display_string()) is a value of the same variant equal to v.
C10_RoundTripAllScalars ==
    Parsed("round_trip") => SameObject(fn_out, fn_in.arg)

\* a display string that no earlier rule of parse_output claims
PlainText(t) ==
    /\ t # <<>>
    /\ Trim(t) = t
    /\ ~QuoteDelimited(t)
    /\ ~ParseI64(t).ok
    /\ ~ParseF64(t).ok
    /\ t \notin {TrueText, FalseText}

\* C10 amended: the round trip returns v for every Integer and Boolean, for every
\* Float other than NaN whose display string does not parse as an i64, and for
\* every String whose text is non-empty, has no surrounding whitespace, is not
\* delimited by double quotes, parses neither as i64 nor as f64 and is not
\* true / false.
C10_RoundTripUnambiguous ==
    Parsed("round_trip") =>
        LET v == fn_in.arg
        IN  /\ v.tag \in {"Integer", "Boolean"} => SameObject(fn_out, v)
            /\ (v.tag = "Float" /\ v.v.kind # "nan"
                  /\ ~ParseI64(to_display_string(v)).ok) => SameObject(fn_out, v)
            /\ (v.tag = "String" /\ PlainText(v.v)) => SameObject(fn_out, v)

\* a negative Float with a fractional part has made the round trip
C10_Witness ==
    /\ Parsed("round_trip")
    /\ fn_in.arg.tag = "Float"
    /\ fn_in.arg.v.kind = "fin" /\ fn_in.arg.v.e < 0 /\ fn_in.arg.v.neg
    /\ fn_out.tag = "Float"

\* C26: parse_output is total: on every captured text, a lone double quote
\* included, it returns a Value; it neither aborts nor returns an error.
C26_ParseOutputTotal ==
    Parsed("parse_output")
    => fn_out.tag \in {"Unit", "String", "Integer", "Float", "Boolean"}

(***************************************************************************)
(* EvaluationEngine (src/src/eval.rs): values, errors and arithmetic.      *)
(* A character of a text is one Unicode scalar value; the characters       *)
(* U+00E9 and U+20AC stand for scalar values of two and three UTF-8 bytes. *)
(***************************************************************************)
ArrayObj(a) == [tag |-> "Array", v |-> a]

MapObj(m) == [tag |-> "Map", v |-> m]

type_name(o) == o.tag

ParseError(m) == [kind |-> "Parse", msg |-> m]

TypeError(expected, found) == [kind |-> "Type", msg |-> expected]

ObjectError(m) == [kind |-> "Object", msg |-> m]

\* the number of bytes of one scalar value in UTF-8
Utf8Len(c) == IF c = "U+00E9" THEN 2 ELSE IF c = "U+20AC" THEN 3 ELSE 1

\* str::len: the length in bytes
RECURSIVE ByteLen(_)
ByteLen(s) == IF s = <<>> THEN 0 ELSE Utf8Len(Head(s)) + ByteLen(Tail(s))

RECURSIVE Pow10(_)
Pow10(n) == IF n <= 0 THEN 1 ELSE 10 * Pow10(n - 1)

Abs(i) == IF i < 0 THEN 0 - i ELSE i

Min(a, b) == IF a <= b THEN a ELSE b

\* i64 as f64
IntToFloat(i) == Finite(i < 0, Abs(i), 0)

\* a finite float as a signed integer number of units 10^e0, e0 <= f.e
Units(f, e0) == (IF f.neg THEN 0 - 1 ELSE 1) * f.m * Pow10(f.e - e0)

IsZero(f) == f.kind = "fin" /\ f.m = 0

\* f64 negation
FloatNeg(f) == [f EXCEPT !.neg = IF f.kind = "nan" THEN FALSE ELSE ~f.neg]

\* f64 addition; exact for the finite values of the model
FloatAdd(x, y) ==
    IF x.kind = "nan" \/ y.kind = "nan" THEN NaN
    ELSE IF x.kind = "inf" /\ y.kind = "inf"
         THEN IF x.neg = y.neg THEN x ELSE NaN
    ELSE IF x.kind = "inf" THEN x
    ELSE IF y.kind = "inf" THEN y
    ELSE LET e0  == Min(x.e, y.e)
             sum == Units(x, e0) + Units(y, e0)
         IN  IF sum = 0 THEN Finite(x.neg /\ y.neg, 0, 0)
             ELSE Finite(sum < 0, Abs(sum), e0)

FloatSub(x, y) == FloatAdd(x, FloatNeg(y))

\* f64 multiplication; exact for the finite values of the model
FloatMul(x, y) ==
    IF x.kind = "nan" \/ y.kind = "nan" THEN NaN
    ELSE IF (x.kind = "inf" /\ IsZero(y)) \/ (IsZero(x) /\ y.kind = "inf") THEN NaN
    ELSE IF x.kind = "inf" \/ y.kind = "inf" THEN Infinite(x.neg # y.neg)
    ELSE Finite(x.neg # y.neg, x.m * y.m, x.e + y.e)

\* the quotient n / d rounded to the nearest integer
RoundDiv(n, d) == (2 * n + d) \div (2 * d)

\* f64 division: the quotient rounded to FloatDigits significant digits,
\* exact whenever the quotient has no more digits than that
FloatDiv(x, y) ==
    IF x.kind = "nan" \/ y.kind = "nan" THEN NaN
    ELSE IF x.kind = "inf"
         THEN IF y.kind = "inf" THEN NaN ELSE Infinite(x.neg # y.neg)
    ELSE IF y.kind = "inf" THEN Finite(x.neg # y.neg, 0, 0)
    ELSE IF IsZero(y)
         THEN IF IsZero(x) THEN NaN ELSE Infinite(x.neg # y.neg)
    ELSE Finite(x.neg # y.neg, RoundDiv(x.m * Pow10(FloatDigits), y.m),
                x.e - y.e - FloatDigits)

\* f64 ==
FloatEq(x, y) ==
    /\ x.kind # "nan"
    /\ y.kind # "nan"
    /\ x.kind = y.kind
    /\ IF x.kind = "inf" THEN x.neg = y.neg
       ELSE Units(x, Min(x.e, y.e)) = Units(y, Min(x.e, y.e))

\* f64 <
FloatLt(x, y) ==
    /\ x.kind # "nan"
    /\ y.kind # "nan"
    /\ IF x.kind = "inf" THEN x.neg /\ ~(y.kind = "inf" /\ y.neg)
       ELSE IF y.kind = "inf" THEN ~y.neg
       ELSE Units(x, Min(x.e, y.e)) < Units(y, Min(x.e, y.e))

\* the printable ASCII characters in code order, from the space (code 32);
\* U+0060 is the grave accent
Ascii ==
    <<" ", "!", "\"", "#", "$", "%", "&", "'", "(", ")", "*", "+", ",", "-", ".", "/",
      "0", "1", "2", "3", "4", "5", "6", "7", "8", "9", ":", ";", "<", "=", ">", "?",
      "@", "A", "B", "C", "D", "E", "F", "G", "H", "I", "J", "K", "L", "M", "N", "O",
      "P", "Q", "R", "S", "T", "U", "V", "W", "X", "Y", "Z", "[", "\\", "]", "^", "_",
      "U+0060", "a", "b", "c", "d", "e", "f", "g", "h", "i", "j", "k", "l", "m", "n", "o",
      "p", "q", "r", "s", "t", "u", "v", "w", "x", "y", "z", "{", "|", "}", "~">>

\* the code point of a scalar value
CodePoint(c) ==
    IF c = "U+00E9" THEN 233
    ELSE IF c = "U+20AC" THEN 8364
    ELSE IF c = "\n" THEN 10
    ELSE 31 + (CHOOSE i \in 1..Len(Ascii) : Ascii[i] = c)

\* the UTF-8 bytes of a scalar value
Utf8Bytes(c) ==
    IF c = "U+00E9" THEN <<195, 169>>
    ELSE IF c = "U+20AC" THEN <<226, 130, 172>>
    ELSE <<CodePoint(c)>>

\* str::bytes
RECURSIVE Bytes(_)
Bytes(s) == IF s = <<>> THEN <<>> ELSE Utf8Bytes(Head(s)) \o Bytes(Tail(s))

\* str < str: the order of the code points
TextLt(a, b) ==
    LET diff == {i \in 1..Min(Len(a), Len(b)) : a[i] # b[i]}
    IN  IF diff = {} THEN Len(a) < Len(b)
        ELSE LET i == CHOOSE j \in diff : \A k \in diff : j <= k
             IN  CodePoint(a[i]) < CodePoint(b[i])

\* bitwise operators of twos-complement integers of any width
RECURSIVE BitAnd(_, _)
BitAnd(a, b) ==
    IF a = 0 \/ b = 0 THEN 0
    ELSE IF a = 0 - 1 THEN b
    ELSE IF b = 0 - 1 THEN a
    ELSE 2 * BitAnd(a \div 2, b \div 2) + (a % 2) * (b % 2)

BitNot(a) == 0 - a - 1

BitOr(a, b) == BitNot(BitAnd(BitNot(a), BitNot(b)))

BitXor(a, b) == BitAnd(BitOr(a, b), BitNot(BitAnd(a, b)))

RECURSIVE Pow2(_)
Pow2(n) == IF n <= 0 THEN 1 ELSE 2 * Pow2(n - 1)

Numeric(o) == o.tag \in {"Integer", "Float"}

\* the operand as f64: an Integer is cast, a Float is taken as it is
AsFloat(o) == IF o.tag = "Integer" THEN IntToFloat(o.v) ELSE o.v

BothInt(l, r) == l.tag = "Integer" /\ r.tag = "Integer"

(***************************************************************************)
(* The operators of evaluate_binary.  The Integer operands of the model    *)
(* lie far from the limits of i64.                                         *)
(***************************************************************************)
add_objects(l, r) ==
    IF BothInt(l, r) THEN Ok(IntegerObj(l.v + r.v))
    ELSE IF Numeric(l) /\ Numeric(r) THEN Ok(FloatObj(FloatAdd(AsFloat(l), AsFloat(r))))
    ELSE IF l.tag = "String" /\ r.tag = "String" THEN Ok(StringObj(l.v \o r.v))
    ELSE IF l.tag = "Array" /\ r.tag = "Array" THEN Ok(ArrayObj(l.v \o r.v))
    ELSE Err(TypeError("compatible types for addition", <<type_name(l), type_name(r)>>))

sub_objects(l, r) ==
    IF BothInt(l, r) THEN Ok(IntegerObj(l.v - r.v))
    ELSE IF Numeric(l) /\ Numeric(r) THEN Ok(FloatObj(FloatSub(AsFloat(l), AsFloat(r))))
    ELSE Err(TypeError("numeric types for subtraction", <<type_name(l), type_name(r)>>))

mul_objects(l, r) ==
    IF BothInt(l, r) THEN Ok(IntegerObj(l.v * r.v))
    ELSE IF Numeric(l) /\ Numeric(r) THEN Ok(FloatObj(FloatMul(AsFloat(l), AsFloat(r))))
    ELSE Err(TypeError("numeric types for multiplication", <<type_name(l), type_name(r)>>))

\* changed: two Integers are divided as Integers
div_objects_integer_quotient(l, r) ==
    IF Numeric(l) /\ Numeric(r)
    THEN IF (IF r.tag = "Integer" THEN r.v = 0 ELSE FloatEq(r.v, Finite(FALSE, 0, 0)))
         THEN Err(RuntimeError("Division by zero"))
         ELSE IF BothInt(l, r)
              THEN Ok(IntegerObj((IF (l.v < 0) # (r.v < 0) THEN 0 - 1 ELSE 1)
                                 * (Abs(l.v) \div Abs(r.v))))
              ELSE Ok(FloatObj(FloatDiv(AsFloat(l), AsFloat(r))))
    ELSE Err(TypeError("numeric types for division", <<type_name(l), type_name(r)>>))

\* each of the four numeric arms tests its divisor (b == 0 or b == 0.0) and
\* divides the operands as f64
div_objects(l, r) ==
    IF Numeric(l) /\ Numeric(r)
    THEN IF (IF r.tag = "Integer" THEN r.v = 0 ELSE FloatEq(r.v, Finite(FALSE, 0, 0)))
         THEN Err(RuntimeError("Division by zero"))
         ELSE Ok(FloatObj(FloatDiv(AsFloat(l), AsFloat(r))))
    ELSE Err(TypeError("numeric types for division", <<type_name(l), type_name(r)>>))

\* i64 %: the remainder has the sign of the dividend
rem_objects(l, r) ==
    IF BothInt(l, r)
    THEN IF r.v = 0 THEN Err(RuntimeError("Division by zero"))
         ELSE Ok(IntegerObj((IF l.v < 0 THEN 0 - 1 ELSE 1) * (Abs(l.v) % Abs(r.v))))
    ELSE Err(TypeError("integer types for remainder", <<type_name(l), type_name(r)>>))

and_objects(l, r) ==
    IF l.tag = "Boolean" /\ r.tag = "Boolean" THEN Ok(BooleanObj(l.v /\ r.v))
    ELSE Err(TypeError("boolean types for logical AND", <<type_name(l), type_name(r)>>))

or_objects(l, r) ==
    IF l.tag = "Boolean" /\ r.tag = "Boolean" THEN Ok(BooleanObj(l.v \/ r.v))
    ELSE Err(TypeError("boolean types for logical OR", <<type_name(l), type_name(r)>>))

xor_objects(l, r) ==
    IF BothInt(l, r) THEN Ok(IntegerObj(BitXor(l.v, r.v)))
    ELSE Err(TypeError("integer types for XOR", <<type_name(l), type_name(r)>>))

bitand_objects(l, r) ==
    IF BothInt(l, r) THEN Ok(IntegerObj(BitAnd(l.v, r.v)))
    ELSE Err(TypeError("integer types for bitwise AND", <<type_name(l), type_name(r)>>))

bitor_objects(l, r) ==
    IF BothInt(l, r) THEN Ok(IntegerObj(BitOr(l.v, r.v)))
    ELSE Err(TypeError("integer types for bitwise OR", <<type_name(l), type_name(r)>>))

shl_objects(l, r) ==
    IF BothInt(l, r)
    THEN IF r.v >= 0 /\ r.v < 64 THEN Ok(IntegerObj(l.v * Pow2(r.v)))
         ELSE Err(RuntimeError("Shift amount out of range"))
    ELSE Err(TypeError("integer types for left shift", <<type_name(l), type_name(r)>>))

shr_objects(l, r) ==
    IF BothInt(l, r)
    THEN IF r.v >= 0 /\ r.v < 64 THEN Ok(IntegerObj(l.v \div Pow2(r.v)))
         ELSE Err(RuntimeError("Shift amount out of range"))
    ELSE Err(TypeError("integer types for right shift", <<type_name(l), type_name(r)>>))

eq_objects(l, r) ==
    IF BothInt(l, r) THEN l.v = r.v
    ELSE IF Numeric(l) /\ Numeric(r) THEN FloatEq(AsFloat(l), AsFloat(r))
    ELSE IF l.tag = "String" /\ r.tag = "String" THEN l.v = r.v
    ELSE IF l.tag = "Boolean" /\ r.tag = "Boolean" THEN l.v = r.v
    ELSE l.tag = "Unit" /\ r.tag = "Unit"

lt_objects(l, r) ==
    IF BothInt(l, r) THEN Ok(l.v < r.v)
    ELSE IF Numeric(l) /\ Numeric(r) THEN Ok(FloatLt(AsFloat(l), AsFloat(r)))
    ELSE IF l.tag = "String" /\ r.tag = "String" THEN Ok(TextLt(l.v, r.v))
    ELSE Err(TypeError("comparable types", <<type_name(l), type_name(r)>>))

le_objects(l, r) ==
    IF lt_objects(l, r).ok # "ok" THEN lt_objects(l, r)
    ELSE Ok(lt_objects(l, r).v \/ eq_objects(l, r))

gt_objects(l, r) ==
    IF le_objects(l, r).ok # "ok" THEN le_objects(l, r) ELSE Ok(~le_objects(l, r).v)

ge_objects(l, r) ==
    IF lt_objects(l, r).ok # "ok" THEN lt_objects(l, r) ELSE Ok(~lt_objects(l, r).v)

\* Ok(ShellObject::Boolean(..)) around the outcome of a comparison
Truth(r) == IF r.ok = "ok" THEN Ok(BooleanObj(r.v)) ELSE r

(***************************************************************************)
(* Field access (src/src/objects.rs).  The names of fields are texts.      *)
(***************************************************************************)
F_length == <<"l", "e", "n", "g", "t", "h">>

F_chars == <<"c", "h", "a", "r", "s">>

F_bytes == <<"b", "y", "t", "e", "s">>

F_is_empty == <<"i", "s", "_", "e", "m", "p", "t", "y">>

F_first == <<"f", "i", "r", "s", "t">>

F_last == <<"l", "a", "s", "t">>

F_path == <<"p", "a", "t", "h">>

F_name == <<"n", "a", "m", "e">>

F_extension == <<"e", "x", "t", "e", "n", "s", "i", "o", "n">>

F_size == <<"s", "i", "z", "e">>

F_permissions == <<"p", "e", "r", "m", "i", "s", "s", "i", "o", "n", "s">>

F_entries == <<"e", "n", "t", "r", "i", "e", "s">>

F_count == <<"c", "o", "u", "n", "t">>

F_parent == <<"p", "a", "r", "e", "n", "t">>

F_filename == <<"f", "i", "l", "e", "n", "a", "m", "e">>

F_exists == <<"e", "x", "i", "s", "t", "s">>

F_is_file == <<"i", "s", "_", "f", "i", "l", "e">>

F_is_dir == <<"i", "s", "_", "d", "i", "r">>

F_pid == <<"p", "i", "d">>

F_command == <<"c", "o", "m", "m", "a", "n", "d">>

F_status == <<"s", "t", "a", "t", "u", "s">>

F_args == <<"a", "r", "g", "s">>

F_env == <<"e", "n", "v">>

F_signature == <<"s", "i", "g", "n", "a", "t", "u", "r", "e">>

F_body == <<"b", "o", "d", "y">>

\* str::split at one character
RECURSIVE SplitOn(_, _)
SplitOn(s, c) ==
    LET at == {i \in 1..Len(s) : s[i] = c}
    IN  IF at = {} THEN <<s>>
        ELSE LET i == CHOOSE j \in at : \A k \in at : j <= k
             IN  <<SubSeq(s, 1, i - 1)>> \o SplitOn(Drop(s, i), c)

IsAbsolute(path) == path # <<>> /\ path[1] = "/"

\* Path::components without the root: empty parts and inner `.` are skipped
PathParts(path) ==
    LET raw == SplitOn(path, "/")
        idx == {i \in 1..Len(raw) :
                   raw[i] # <<>> /\ (raw[i] # <<".">> \/ (i = 1 /\ ~IsAbsolute(path)))}
    IN  [n \in 1..Cardinality(idx) |->
            raw[CHOOSE i \in idx : Cardinality({j \in idx : j <= i}) = n]]

\* Path::file_name().unwrap_or_default()
FileName(path) ==
    LET parts == PathParts(path)
    IN  IF parts = <<>> \/ parts[Len(parts)] \in {<<".", ".">>, <<".">>} THEN <<>>
        ELSE parts[Len(parts)]

\* Path::extension().unwrap_or_default()
Extension(path) ==
    LET file == FileName(path)
        dots == {i \in 1..Len(file) : file[i] = "."}
        at   == CHOOSE i \in dots : \A j \in dots : j <= i
    IN  IF dots = {} \/ at = 1 THEN <<>> ELSE Drop(file, at)

\* Path::parent().unwrap_or(&path)
Parent(path) ==
    LET parts == PathParts(path)
    IN  IF parts = <<>> THEN path
        ELSE (IF IsAbsolute(path) THEN <<"/">> ELSE <<>>)
             \o Join(SubSeq(parts, 1, Len(parts) - 1), <<"/">>)

FileObj(f)        == [tag |-> "File", v |-> f]
DirectoryObj(d)   == [tag |-> "Directory", v |-> d]
PathObj(p)        == [tag |-> "Path", v |-> p]
ProcessObj(p)     == [tag |-> "Process", v |-> p]
CommandObj(c)     == [tag |-> "Command", v |-> c]
EnvironmentObj(e) == [tag |-> "Environment", v |-> e]
FunctionObj(f)    == [tag |-> "Function", v |-> f]

\* the texts of a sequence as an Array of Strings
StringsObj(texts) == ArrayObj([i \in 1..Len(texts) |-> StringObj(texts[i])])

\* HashMap::get on the entries [k, v] of a map
MapHas(entries, key) == \E i \in 1..Len(entries) : entries[i].k = key

MapGet(entries, key) == entries[CHOOSE i \in 1..Len(entries) : entries[i].k = key].v

MapKeys(entries) == [i \in 1..Len(entries) |-> entries[i].k]

FileObject_get_field(file, name) ==
    IF name = F_path THEN Ok(StringObj(file.path))
    ELSE IF name = F_name THEN Ok(StringObj(FileName(file.path)))
    ELSE IF name = F_extension THEN Ok(StringObj(Extension(file.path)))
    ELSE IF name = F_size THEN Ok(IntegerObj(file.size))
    ELSE IF name = F_permissions THEN Ok(StringObj(file.permissions))
    ELSE Err(ObjectError("File has no field"))

FileObject_field_names(file) ==
    <<F_path, F_name, F_extension, F_size, F_permissions>>

DirectoryObject_get_field(dir, name) ==
    IF name = F_path THEN Ok(StringObj(dir.path))
    ELSE IF name = F_name THEN Ok(StringObj(FileName(dir.path)))
    ELSE IF name = F_entries THEN Ok(StringsObj(dir.entries))
    ELSE IF name = F_count THEN Ok(IntegerObj(Len(dir.entries)))
    ELSE Err(ObjectError("Directory has no field"))

DirectoryObject_field_names(dir) == <<F_path, F_name, F_entries, F_count>>

\* on_disk is what the file system holds at the path: file, dir or none
PathObject_get_field(p, name) ==
    IF name = F_path THEN Ok(StringObj(p.path))
    ELSE IF name = F_parent THEN Ok(StringObj(Parent(p.path)))
    ELSE IF name = F_filename THEN Ok(StringObj(FileName(p.path)))
    ELSE IF name = F_extension THEN Ok(StringObj(Extension(p.path)))
    ELSE IF name = F_exists THEN Ok(BooleanObj(p.on_disk # "none"))
    ELSE IF name = F_is_file THEN Ok(BooleanObj(p.on_disk = "file"))
    ELSE IF name = F_is_dir THEN Ok(BooleanObj(p.on_disk = "dir"))
    ELSE Err(ObjectError("Path has no field"))

PathObject_field_names(p) ==
    <<F_path, F_parent, F_filename, F_extension, F_exists, F_is_file, F_is_dir>>

ProcessObject_get_field(proc, name) ==
    IF name = F_pid THEN Ok(IntegerObj(proc.pid))
    ELSE IF name = F_name THEN Ok(StringObj(proc.name))
    ELSE IF name = F_command THEN Ok(StringObj(proc.command))
    ELSE IF name = F_status THEN Ok(StringObj(proc.status))
    ELSE Err(ObjectError("Process has no field"))

ProcessObject_field_names(proc) == <<F_pid, F_name, F_command, F_status>>

CommandObject_get_field(cmd, name) ==
    IF name = F_name THEN Ok(StringObj(cmd.name))
    ELSE IF name = F_args THEN Ok(StringsObj(cmd.args))
    ELSE IF name = F_env
         THEN Ok(MapObj([i \in 1..Len(cmd.env) |->
                            [k |-> cmd.env[i].k, v |-> StringObj(cmd.env[i].v)]]))
    ELSE Err(ObjectError("Command has no field"))

CommandObject_field_names(cmd) == <<F_name, F_args, F_env>>

EnvironmentObject_get_field(env, name) ==
    IF MapHas(env.vars, name) THEN Ok(StringObj(MapGet(env.vars, name)))
    ELSE Err(ObjectError("Environment variable not found"))

EnvironmentObject_field_names(env) == MapKeys(env.vars)

FunctionObject_get_field(func, name) ==
    IF name = F_name THEN Ok(StringObj(func.name))
    ELSE IF name = F_signature THEN Ok(StringObj(func.signature))
    ELSE IF name = F_body THEN Ok(StringObj(func.body))
    ELSE Err(ObjectError("Function has no field"))

FunctionObject_field_names(func) == <<F_name, F_signature, F_body>>

\* ShellObject::get_field
get_field(o, name) ==
    CASE o.tag = "String" ->
           IF name = F_length THEN Ok(IntegerObj(ByteLen(o.v)))
           ELSE IF name = F_chars
                THEN Ok(ArrayObj([i \in 1..Len(o.v) |-> StringObj(<<o.v[i]>>)]))
           ELSE IF name = F_bytes
                THEN Ok(ArrayObj([i \in 1..ByteLen(o.v) |-> IntegerObj(Bytes(o.v)[i])]))
           ELSE IF name = F_is_empty THEN Ok(BooleanObj(o.v = <<>>))
           ELSE Err(ObjectError("String has no field"))
      [] o.tag = "Array" ->
           IF name = F_length THEN Ok(IntegerObj(Len(o.v)))
           ELSE IF name = F_is_empty THEN Ok(BooleanObj(o.v = <<>>))
           ELSE IF name = F_first
                THEN IF o.v = <<>> THEN Err(ObjectError("Array is empty")) ELSE Ok(o.v[1])
           ELSE IF name = F_last
                THEN IF o.v = <<>> THEN Err(ObjectError("Array is empty"))
                     ELSE Ok(o.v[Len(o.v)])
           ELSE Err(ObjectError("Array has no field"))
      [] o.tag = "File"        -> FileObject_get_field(o.v, name)
      [] o.tag = "Directory"   -> DirectoryObject_get_field(o.v, name)
      [] o.tag = "Path"        -> PathObject_get_field(o.v, name)
      [] o.tag = "Process"     -> ProcessObject_get_field(o.v, name)
      [] o.tag = "Command"     -> CommandObject_get_field(o.v, name)
      [] o.tag = "Environment" -> EnvironmentObject_get_field(o.v, name)
      [] o.tag = "Map" ->
           IF MapHas(o.v, name) THEN Ok(MapGet(o.v, name))
           ELSE Err(ObjectError("Map has no field"))
      [] OTHER -> Err(ObjectError("has no fields"))

\* ShellObject::field_names
field_names(o) ==
    CASE o.tag = "String"      -> <<F_length, F_chars, F_bytes, F_is_empty>>
      [] o.tag = "Array"       -> <<F_length, F_is_empty, F_first, F_last>>
      [] o.tag = "File"        -> FileObject_field_names(o.v)
      [] o.tag = "Directory"   -> DirectoryObject_field_names(o.v)
      [] o.tag = "Path"        -> PathObject_field_names(o.v)
      [] o.tag = "Process"     -> ProcessObject_field_names(o.v)
      [] o.tag = "Command"     -> CommandObject_field_names(o.v)
      [] o.tag = "Environment" -> EnvironmentObject_field_names(o.v)
      [] o.tag = "Map"         -> MapKeys(o.v)
      [] OTHER                 -> <<>>

(***************************************************************************)
(* The expressions of syn, after parsing.  Identifiers, method names and   *)
(* literal texts are texts; operators are named as in syn::BinOp / UnOp.   *)
(***************************************************************************)
LitStr(t)   == [node |-> "Lit", lit |-> "Str", v |-> t]
LitInt(t)   == [node |-> "Lit", lit |-> "Int", v |-> t]
LitFloat(t) == [node |-> "Lit", lit |-> "Float", v |-> t]
LitBool(b)  == [node |-> "Lit", lit |-> "Bool", v |-> b]
LitChar(c)  == [node |-> "Lit", lit |-> "Char", v |-> c]
LitByte(t)  == [node |-> "Lit", lit |-> "Byte", v |-> t]

ExprPath(segments)       == [node |-> "Path", segments |-> segments]
ExprBinary(op, l, r)     == [node |-> "Binary", op |-> op, left |-> l, right |-> r]
ExprUnary(op, e)         == [node |-> "Unary", op |-> op, expr |-> e]
ExprParen(e)             == [node |-> "Paren", expr |-> e]
ExprArray(elems)         == [node |-> "Array", elems |-> elems]
ExprTuple(elems)         == [node |-> "Tuple", elems |-> elems]
ExprCall(func, args)     == [node |-> "Call", func |-> func, args |-> args]
ExprMethodCall(r, m, a)  == [node |-> "MethodCall", receiver |-> r, method |-> m, args |-> a]
ExprField(base, named, member) ==
    [node |-> "Field", base |-> base, named |-> named, member |-> member]
ExprIndex(e, i)          == [node |-> "Index", expr |-> e, index |-> i]
ExprBlock(stmts)         == [node |-> "Block", stmts |-> stmts]
ExprIf(cond, then, else) == [node |-> "If", cond |-> cond, then |-> then, else |-> else]
ExprMatch(e, arms)       == [node |-> "Match", expr |-> e, arms |-> arms]
\* every other variant of syn::Expr (Closure, Cast, Macro, Range, While, ...)
ExprOther(variant, tokens) == [node |-> variant, tokens |-> tokens]

Var(name) == ExprPath(<<name>>)

M_len     == <<"l", "e", "n">>
M_push    == <<"p", "u", "s", "h">>
M_get     == <<"g", "e", "t">>
M_println == <<"p", "r", "i", "n", "t", "l", "n">>
M_print   == <<"p", "r", "i", "n", "t">>
M_format  == <<"f", "o", "r", "m", "a", "t">>

(***************************************************************************)
(* The outcome of an evaluation: ok / err / panic, the value or the error, *)
(* and out, the text written to the standard output while evaluating.      *)
(***************************************************************************)
Done(r, out) == [ok |-> r.ok, v |-> r.v, out |-> out]

\* the outcome r of a later step, after out was written
After(out, r) == [ok |-> r.ok, v |-> r.v, out |-> out \o r.out]

evaluate_literal(lit) ==
    CASE lit.lit = "Str"   -> Ok(StringObj(lit.v))
      [] lit.lit = "Int"   -> IF ParseI64(lit.v).ok THEN Ok(IntegerObj(ParseI64(lit.v).v))
                              ELSE Err(EvalError("Invalid integer"))
      [] lit.lit = "Float" -> IF ParseF64(lit.v).ok THEN Ok(FloatObj(ParseF64(lit.v).v))
                              ELSE Err(EvalError("Invalid float"))
      [] lit.lit = "Bool"  -> Ok(BooleanObj(lit.v))
      [] lit.lit = "Char"  -> Ok(StringObj(<<lit.v>>))
      [] OTHER             -> Err(EvalError("Unsupported literal type"))

evaluate_path(path, vs) ==
    LET path_str == Join(path.segments, <<":", ":">>)
    IN  IF Len(path.segments) = 1 /\ path.segments[1] \in DOMAIN vs
        THEN Ok(vs[path.segments[1]])
        ELSE IF path_str = <<"t", "r", "u", "e">> THEN Ok(BooleanObj(TRUE))
        ELSE IF path_str = <<"f", "a", "l", "s", "e">> THEN Ok(BooleanObj(FALSE))
        ELSE Err(EvalError("Unknown identifier"))

\* the match on binary.op, both operands evaluated
apply_binary(op, l, r) ==
    CASE op = "Add"    -> add_objects(l, r)
      [] op = "Sub"    -> sub_objects(l, r)
      [] op = "Mul"    -> mul_objects(l, r)
      [] op = "Div"    -> div_objects(l, r)
      [] op = "Rem"    -> rem_objects(l, r)
      [] op = "And"    -> and_objects(l, r)
      [] op = "Or"     -> or_objects(l, r)
      [] op = "BitXor" -> xor_objects(l, r)
      [] op = "BitAnd" -> bitand_objects(l, r)
      [] op = "BitOr"  -> bitor_objects(l, r)
      [] op = "Shl"    -> shl_objects(l, r)
      [] op = "Shr"    -> shr_objects(l, r)
      [] op = "Eq"     -> Ok(BooleanObj(eq_objects(l, r)))
      [] op = "Lt"     -> Truth(lt_objects(l, r))
      [] op = "Le"     -> Truth(le_objects(l, r))
      [] op = "Ne"     -> Ok(BooleanObj(~eq_objects(l, r)))
      [] op = "Ge"     -> Truth(ge_objects(l, r))
      [] op = "Gt"     -> Truth(gt_objects(l, r))
      [] OTHER         -> Err(EvalError("Unsupported binary operator"))

\* the match on unary.op, the operand evaluated
apply_unary(op, operand) ==
    CASE op = "Not" -> IF operand.tag = "Boolean" THEN Ok(BooleanObj(~operand.v))
                       ELSE Err(TypeError("boolean", type_name(operand)))
      [] op = "Neg" -> IF operand.tag = "Integer" THEN Ok(IntegerObj(0 - operand.v))
                       ELSE IF operand.tag = "Float" THEN Ok(FloatObj(FloatNeg(operand.v)))
                       ELSE Err(TypeError("numeric", type_name(operand)))
      [] OTHER      -> Err(EvalError("Unsupported unary operator"))

\* the match of evaluate_index on the evaluated base and index.  A String is
\* tested against its length in bytes and then indexed in its vector of
\* scalar values: an index that passes the test but lies past the vector
\* aborts the process.
apply_index(base, index_val) ==
    IF base.tag = "Array" /\ index_val.tag = "Integer"
    THEN IF index_val.v >= 0 /\ index_val.v < Len(base.v)
         THEN Ok(base.v[index_val.v + 1])
         ELSE Err(RuntimeError("Index out of bounds for array"))
    ELSE IF base.tag = "Map" /\ index_val.tag = "String"
    THEN IF MapHas(base.v, index_val.v) THEN Ok(MapGet(base.v, index_val.v))
         ELSE Ok(UnitObj)
    ELSE IF base.tag = "String" /\ index_val.tag = "Integer"
    THEN IF index_val.v >= 0 /\ index_val.v < ByteLen(base.v)
         THEN IF index_val.v < Len(base.v)
              THEN Ok(StringObj(<<base.v[index_val.v + 1]>>))
              ELSE Aborted
         ELSE Err(RuntimeError("Index out of bounds for string"))
    ELSE Err(EvalError("Invalid index operation"))

\* the arms of evaluate_method_call that need no argument
apply_method(receiver, method_name) ==
    IF method_name = M_len
    THEN IF receiver.tag = "String" THEN Ok(IntegerObj(ByteLen(receiver.v)))
         ELSE IF receiver.tag = "Array" THEN Ok(IntegerObj(Len(receiver.v)))
         ELSE Err(EvalError("Type has no method len"))
    ELSE IF method_name = F_is_empty
    THEN IF receiver.tag \in {"String", "Array"} THEN Ok(BooleanObj(receiver.v = <<>>))
         ELSE Err(EvalError("Type has no method is_empty"))
    ELSE get_field(receiver, method_name)

\* the push arm, the argument evaluated
apply_push(receiver, arg) ==
    IF receiver.tag = "Array" THEN Ok(ArrayObj(Append(receiver.v, arg)))
    ELSE Err(EvalError("Type has no method push"))

\* the get arm, the argument evaluated
apply_get(receiver, key) ==
    IF receiver.tag = "Map" /\ key.tag = "String"
    THEN IF MapHas(receiver.v, key.v) THEN Ok(MapGet(receiver.v, key.v)) ELSE Ok(UnitObj)
    ELSE IF receiver.tag = "Array" /\ key.tag = "Integer"
    THEN IF key.v >= 0 /\ key.v < Len(receiver.v) THEN Ok(receiver.v[key.v + 1])
         ELSE Ok(UnitObj)
    ELSE Err(EvalError("Invalid get() operation"))

\* changed: a block yields Unit
evaluate_block_as_unit(block, vs) == Done(Ok(UnitObj), <<>>)

evaluate_block(block, vs) ==
    Done(Err(EvalError("Block expressions not supported in simple evaluation")), <<>>)

evaluate_if(if_expr, vs) ==
    Done(Err(EvalError("If expressions not supported in simple evaluation")), <<>>)

evaluate_match(match_expr, vs) ==
    Done(Err(EvalError("Match expressions not supported in simple evaluation")), <<>>)

RECURSIVE evaluate_expr(_, _)

RECURSIVE OutTo(_, _)
OutTo(rs, n) == IF n = 0 THEN <<>> ELSE OutTo(rs, n - 1) \o rs[n].out

\* `elements.push(self.evaluate_expr(elem)?)` over a sequence of expressions:
\* the values of all of them, or the first failure
EvalAll(elems, vs) ==
    LET rs   == [i \in 1..Len(elems) |-> evaluate_expr(elems[i], vs)]
        bad  == {i \in 1..Len(elems) : rs[i].ok # "ok"}
        stop == CHOOSE i \in bad : \A j \in bad : i <= j
    IN  IF bad = {}
        THEN [ok |-> "ok", v |-> [i \in 1..Len(elems) |-> rs[i].v],
              out |-> OutTo(rs, Len(elems))]
        ELSE [ok |-> rs[stop].ok, v |-> rs[stop].v, out |-> OutTo(rs, stop)]

evaluate_binary(binary, vs) ==
    CHOOSE x \in
        {IF left.ok # "ok" THEN left
         ELSE CHOOSE y \in
                  {IF right.ok # "ok" THEN After(left.out, right)
                   ELSE Done(apply_binary(binary.op, left.v, right.v),
                             left.out \o right.out)
                   : right \in {evaluate_expr(binary.right, vs)}} : TRUE
         : left \in {evaluate_expr(binary.left, vs)}} : TRUE

evaluate_unary(unary, vs) ==
    CHOOSE x \in
        {IF operand.ok # "ok" THEN operand
         ELSE Done(apply_unary(unary.op, operand.v), operand.out)
         : operand \in {evaluate_expr(unary.expr, vs)}} : TRUE

evaluate_array(array, vs) ==
    CHOOSE x \in
        {IF elements.ok # "ok" THEN elements
         ELSE Done(Ok(ArrayObj(elements.v)), elements.out)
         : elements \in {EvalAll(array.elems, vs)}} : TRUE

evaluate_tuple(tuple, vs) ==
    IF tuple.elems = <<>> THEN Done(Ok(UnitObj), <<>>)
    ELSE CHOOSE x \in
        {IF elements.ok # "ok" THEN elements
         ELSE Done(Ok(ArrayObj(elements.v)), elements.out)
         : elements \in {EvalAll(tuple.elems, vs)}} : TRUE

\* changed: each argument is written as soon as it has been evaluated
PrintArm_argument_by_argument(call, vs, newline) ==
    CHOOSE x \in
        {IF \A i \in 1..Len(rs) : rs[i].ok = "ok"
         THEN Done(Ok(UnitObj),
                   OutTo(rs, Len(rs))
                   \o Join([i \in 1..Len(rs) |-> to_display_string(rs[i].v)], <<" ">>)
                   \o newline)
         ELSE CHOOSE y \in
                  {[ok  |-> rs[stop].ok, v |-> rs[stop].v,
                    out |-> OutTo(rs, stop)
                            \o Join([i \in 1..(stop - 1) |-> to_display_string(rs[i].v)],
                                    <<" ">>)]
                   : stop \in {i \in 1..Len(rs) :
                                 /\ rs[i].ok # "ok"
                                 /\ \A j \in 1..(i - 1) : rs[j].ok = "ok"}} : TRUE
         : rs \in {[i \in 1..Len(call.args) |-> evaluate_expr(call.args[i], vs)]}} : TRUE

\* println / print: the text is built from the arguments, then written
PrintArm(call, vs, newline) ==
    CHOOSE x \in
        {IF args.ok # "ok" THEN args
         ELSE Done(Ok(UnitObj),
                   args.out \o Join([i \in 1..Len(args.v) |-> to_display_string(args.v[i])],
                                    <<" ">>) \o newline)
         : args \in {EvalAll(call.args, vs)}} : TRUE

FormatArm(call, vs) ==
    IF call.args = <<>> THEN Done(Ok(StringObj(<<>>)), <<>>)
    ELSE CHOOSE x \in
        {IF f.ok # "ok" THEN f
         ELSE Done(Ok(StringObj(IF f.v.tag = "String" THEN f.v.v
                                ELSE to_display_string(f.v))), f.out)
         : f \in {evaluate_expr(call.args[1], vs)}} : TRUE

LenArm(call, vs) ==
    IF Len(call.args) # 1
    THEN Done(Err(EvalError("len() requires exactly one argument")), <<>>)
    ELSE CHOOSE x \in
        {IF arg.ok # "ok" THEN arg
         ELSE Done(IF arg.v.tag = "String" THEN Ok(IntegerObj(ByteLen(arg.v.v)))
                   ELSE IF arg.v.tag = "Array" THEN Ok(IntegerObj(Len(arg.v.v)))
                   ELSE Err(TypeError("string or array", type_name(arg.v))), arg.out)
         : arg \in {evaluate_expr(call.args[1], vs)}} : TRUE

evaluate_call(call, vs) ==
    IF call.func.node # "Path"
    THEN Done(Err(EvalError("Complex function calls not supported yet")), <<>>)
    ELSE LET func_name == Join(call.func.segments, <<":", ":">>)
         IN  IF func_name = M_println THEN PrintArm(call, vs, <<"\n">>)
             ELSE IF func_name = M_print THEN PrintArm(call, vs, <<>>)
             ELSE IF func_name = M_format THEN FormatArm(call, vs)
             ELSE IF func_name = M_len THEN LenArm(call, vs)
             ELSE Done(Err(EvalError("Unknown function")), <<>>)

\* push and get: the count of arguments is tested, then the argument evaluated
ArgArm(method_call, vs, receiver) ==
    IF Len(method_call.args) # 1
    THEN After(receiver.out, Done(Err(EvalError("requires exactly one argument")), <<>>))
    ELSE CHOOSE x \in
        {IF arg.ok # "ok" THEN After(receiver.out, arg)
         ELSE Done(IF method_call.method = M_push THEN apply_push(receiver.v, arg.v)
                   ELSE apply_get(receiver.v, arg.v), receiver.out \o arg.out)
         : arg \in {evaluate_expr(method_call.args[1], vs)}} : TRUE

evaluate_method_call(method_call, vs) ==
    CHOOSE x \in
        {IF receiver.ok # "ok" THEN receiver
         ELSE IF method_call.method \in {M_push, M_get}
              THEN ArgArm(method_call, vs, receiver)
              ELSE Done(apply_method(receiver.v, method_call.method), receiver.out)
         : receiver \in {evaluate_expr(method_call.receiver, vs)}} : TRUE

evaluate_field_access(field, vs) ==
    CHOOSE x \in
        {IF base.ok # "ok" THEN base
         ELSE IF field.named THEN Done(get_field(base.v, field.member), base.out)
         ELSE Done(Err(EvalError("Tuple field access not supported")), base.out)
         : base \in {evaluate_expr(field.base, vs)}} : TRUE

evaluate_index(index, vs) ==
    CHOOSE x \in
        {IF base.ok # "ok" THEN base
         ELSE CHOOSE y \in
                  {IF index_val.ok # "ok" THEN After(base.out, index_val)
                   ELSE Done(apply_index(base.v, index_val.v), base.out \o index_val.out)
                   : index_val \in {evaluate_expr(index.index, vs)}} : TRUE
         : base \in {evaluate_expr(index.expr, vs)}} : TRUE

\* EvaluationEngine::evaluate_expr; vs is the variable table of the engine
evaluate_expr(expr, vs) ==
    CASE expr.node = "Lit"        -> Done(evaluate_literal(expr), <<>>)
      [] expr.node = "Path"       -> Done(evaluate_path(expr, vs), <<>>)
      [] expr.node = "Binary"     -> evaluate_binary(expr, vs)
      [] expr.node = "Unary"      -> evaluate_unary(expr, vs)
      [] expr.node = "Paren"      -> evaluate_expr(expr.expr, vs)
      [] expr.node = "Array"      -> evaluate_array(expr, vs)
      [] expr.node = "Tuple"      -> evaluate_tuple(expr, vs)
      [] expr.node = "Call"       -> evaluate_call(expr, vs)
      [] expr.node = "MethodCall" -> evaluate_method_call(expr, vs)
      [] expr.node = "Field"      -> evaluate_field_access(expr, vs)
      [] expr.node = "Index"      -> evaluate_index(expr, vs)
      [] expr.node = "Block"      -> evaluate_block(expr, vs)
      [] expr.node = "If"         -> evaluate_if(expr, vs)
      [] expr.node = "Match"      -> evaluate_match(expr, vs)
      [] OTHER -> Done(Err(EvalError("Unsupported expression type")), <<>>)

(***************************************************************************)
(* The evaluator as a function: an expression and a variable table are     *)
(* drawn in the initial state and one action evaluates the expression.     *)
(***************************************************************************)
N_xs  == <<"x", "s">>
N_s   == <<"s">>
N_m   == <<"m">>
N_n   == <<"n">>
N_neg == <<"n", "e", "g">>
N_z   == <<"z">>
N_w   == <<"w">>
N_q   == <<"q">>
N_b   == <<"b">>
N_u   == <<"u">>

\* a table that binds a value of every kind the evaluator can hold
EngineVars ==
    [name \in {N_xs, N_s, N_m, N_n, N_neg, N_z, N_w, N_q, N_b, N_u} |->
        CASE name = N_xs  -> ArrayObj(<<IntegerObj(1), IntegerObj(2)>>)
          [] name = N_s   -> StringObj(<<"a", "U+00E9">>)
          [] name = N_m   -> MapObj(<<[k |-> <<"k">>, v |-> IntegerObj(7)]>>)
          [] name = N_n   -> IntegerObj(5)
          [] name = N_neg -> IntegerObj(0 - 1)
          [] name = N_z   -> FloatObj(Finite(TRUE, 0, 0))
          [] name = N_w   -> FloatObj(Infinite(FALSE))
          [] name = N_q   -> FloatObj(NaN)
          [] name = N_b   -> BooleanObj(TRUE)
          [] name = N_u   -> UnitObj]

VarNames == DOMAIN EngineVars \cup {<<"y">>}

VarExprs == {Var(name) : name \in VarNames}

LitExprs ==
    {LitInt(<<"0">>), LitInt(<<"1">>), LitInt(<<"2">>), LitInt(<<"3">>),
     LitFloat(<<"0", ".", "0">>), LitFloat(<<"2", ".", "5">>),
     LitStr(<<"k">>), LitStr(<<"a", "b">>)}

BinOps ==
    {"Add", "Sub", "Mul", "Div", "Rem", "And", "Or", "BitXor", "BitAnd", "BitOr",
     "Shl", "Shr", "Eq", "Lt", "Le", "Ne", "Ge", "Gt", "AddAssign"}

UnOps == {"Not", "Neg", "Deref"}

OtherVariants == {"Closure", "Cast", "Macro", "Range", "While", "Assign", "Reference"}

FieldNames == {F_length, F_is_empty, F_first, F_last, F_chars, F_bytes, <<"k">>}

MethodNames == {M_len, M_push, M_get, F_is_empty, F_length, F_first}

\* print(1, "ab") and a division by zero, to be placed inside other expressions
PrintCall == ExprCall(Var(M_print), <<LitInt(<<"1">>), LitStr(<<"a", "b">>)>>)

DivByZero == ExprBinary("Div", LitInt(<<"1">>), LitInt(<<"0">>))

Evaluating(e) == [f |-> "evaluate_expr", expr |-> e, vs |-> EngineVars]

InitEval ==
    /\ InitRepl
    /\ fn_out = Pending
    /\ \/ \E e \in LitExprs \cup {LitByte(<<"a">>)} : fn_in = Evaluating(e)
       \/ \E b \in BOOLEAN : fn_in = Evaluating(LitBool(b))
       \/ fn_in = Evaluating(LitChar("c"))
       \/ \E e \in VarExprs : fn_in = Evaluating(e)
       \/ \E op \in BinOps, l \in LitExprs, r \in LitExprs :
             fn_in = Evaluating(ExprBinary(op, l, r))
       \/ \E op \in BinOps, l \in VarExprs, r \in LitExprs :
             fn_in = Evaluating(ExprBinary(op, l, r))
       \/ \E op \in BinOps, l \in LitExprs, r \in VarExprs :
             fn_in = Evaluating(ExprBinary(op, l, r))
       \/ \E op \in BinOps, l \in VarExprs, r \in VarExprs :
             fn_in = Evaluating(ExprBinary(op, l, r))
       \/ \E op \in UnOps, e \in LitExprs : fn_in = Evaluating(ExprUnary(op, e))
       \/ \E op \in UnOps, e \in VarExprs :
             fn_in = Evaluating(ExprUnary(op, ExprParen(e)))
       \/ \E b \in VarExprs, i \in LitExprs : fn_in = Evaluating(ExprIndex(b, i))
       \/ \E b \in VarExprs, i \in VarExprs : fn_in = Evaluating(ExprIndex(b, i))
       \/ \E b \in LitExprs, i \in LitExprs : fn_in = Evaluating(ExprIndex(b, i))
       \/ \E b \in VarExprs, name \in FieldNames, named \in BOOLEAN :
             fn_in = Evaluating(ExprField(b, named, name))
       \/ \E r \in VarExprs, name \in MethodNames :
             fn_in = Evaluating(ExprMethodCall(r, name, <<>>))
       \/ \E r \in VarExprs, name \in MethodNames, a \in LitExprs :
             fn_in = Evaluating(ExprMethodCall(r, name, <<a>>))
       \/ \E r \in VarExprs, name \in MethodNames, a \in VarExprs :
             fn_in = Evaluating(ExprMethodCall(r, name, <<a, a>>))
       \/ \E name \in {M_println, M_print, M_format, M_len, <<"f">>}, a \in LitExprs :
             \/ fn_in = Evaluating(ExprCall(Var(name), <<>>))
             \/ fn_in = Evaluating(ExprCall(Var(name), <<a>>))
             \/ fn_in = Evaluating(ExprCall(Var(name), <<a, DivByZero>>))
             \/ fn_in = Evaluating(ExprCall(Var(name), <<PrintCall, a>>))
             \/ fn_in = Evaluating(ExprCall(Var(name), <<a, LitInt(<<"2">>)>>))
             \/ fn_in = Evaluating(ExprCall(Var(name), <<DivByZero, PrintCall>>))
             \/ fn_in = Evaluating(ExprCall(Var(name), <<PrintCall, DivByZero>>))
             \/ fn_in = Evaluating(ExprCall(ExprParen(Var(name)), <<a>>))
       \/ \E a \in LitExprs, b \in VarExprs :
             \/ fn_in = Evaluating(ExprArray(<<a, b>>))
             \/ fn_in = Evaluating(ExprTuple(<<b, a>>))
             \/ fn_in = Evaluating(ExprArray(<<PrintCall, b>>))
             \/ fn_in = Evaluating(ExprBinary("Add", PrintCall, b))
             \/ fn_in = Evaluating(ExprTuple(<<>>))
       \/ \E e \in LitExprs :
             \/ fn_in = Evaluating(ExprBlock(<<e>>))
             \/ fn_in = Evaluating(ExprIf(LitBool(TRUE), e, e))
             \/ fn_in = Evaluating(ExprMatch(e, <<e>>))
             \/ fn_in = Evaluating(ExprParen(ExprBlock(<<e>>)))
             \/ fn_in = Evaluating(ExprBinary("Add", e, ExprIf(LitBool(TRUE), e, e)))
             \/ fn_in = Evaluating(ExprArray(<<e, ExprMatch(e, <<e>>)>>))
       \/ \E variant \in OtherVariants, e \in LitExprs :
             \/ fn_in = Evaluating(ExprOther(variant, <<e>>))
             \/ fn_in = Evaluating(ExprUnary("Neg", ExprOther(variant, <<e>>)))

\* changed: push stores the longer array in the table
EngineCall_push_stores(expr, vs) ==
    [result    |-> evaluate_expr(expr, vs),
     variables |-> IF /\ expr.node = "MethodCall"
                      /\ expr.method = M_push
                      /\ expr.receiver.node = "Path"
                      /\ evaluate_expr(expr, vs).ok = "ok"
                   THEN [vs EXCEPT ![expr.receiver.segments[1]] =
                                       evaluate_expr(expr, vs).v]
                   ELSE vs]

\* evaluate_expr borrows the engine as &self: the table after the call is
\* the table before it
EngineCall(expr, vs) ==
    [result |-> evaluate_expr(expr, vs), variables |-> vs]

Evaluate ==
    /\ fn_in.f = "evaluate_expr"
    /\ fn_out.tag = "Pending"
    /\ \E x \in {EngineCall(fn_in.expr, fn_in.vs)} :
          fn_out' = [tag |-> "Evaluated", result |-> x.result, variables |-> x.variables]
    /\ UNCHANGED <<replVars, fn_in>>

NextEval == Evaluate

SpecEval == InitEval /\ [][NextEval]_vars

(***************************************************************************)
(* Claims about the evaluator (SpecEval).                                  *)
(***************************************************************************)
Evaluated == fn_in.f = "evaluate_expr" /\ fn_out.tag = "Evaluated"

\* the outcome of evaluating a sub-expression of the input on its own
Sub(e) == evaluate_expr(e, fn_in.vs)

ZeroValue(o) ==
    \/ o.tag = "Integer" /\ o.v = 0
    \/ o.tag = "Float" /\ o.v.kind = "fin" /\ o.v.m = 0

\* a / b with two numeric operands has been evaluated
DivisionEvaluated ==
    /\ Evaluated
    /\ fn_in.expr.node = "Binary"
    /\ fn_in.expr.op = "Div"
    /\ Sub(fn_in.expr.left).ok = "ok"
    /\ Sub(fn_in.expr.right).ok = "ok"
    /\ Numeric(Sub(fn_in.expr.left).v)
    /\ Numeric(Sub(fn_in.expr.right).v)

\* C11: a / b on two numeric operands fails with a RuntimeError when b is the
\* integer zero or a float zero, and yields a Float otherwise, also when both
\* operands are Integers; it never aborts.
C11_DivisionFloatOrRuntimeError ==
    DivisionEvaluated =>
        IF ZeroValue(Sub(fn_in.expr.right).v)
        THEN fn_out.result.ok = "err" /\ fn_out.result.v.kind = "Runtime"
        ELSE fn_out.result.ok = "ok" /\ fn_out.result.v.tag = "Float"

\* 5 / 2 on two Integers has yielded the Float 2.5
C11_Witness ==
    /\ DivisionEvaluated
    /\ Sub(fn_in.expr.left).v.tag = "Integer"
    /\ Sub(fn_in.expr.right).v.tag = "Integer"
    /\ fn_out.result.ok = "ok"
    /\ fn_out.result.v.tag = "Float"
    /\ fn_out.result.v.v = Finite(FALSE, 25, 0 - 1)

\* base[index] has been evaluated, both operands having a value
IndexEvaluated ==
    /\ Evaluated
    /\ fn_in.expr.node = "Index"
    /\ Sub(fn_in.expr.expr).ok = "ok"
    /\ Sub(fn_in.expr.index).ok = "ok"

InRange(i, n) == i >= 0 /\ i < n

\* C12: an array index that is negative or past the end fails with a
\* RuntimeError; a map indexed by a string key it does not hold yields Unit; a
\* string index counts Unicode scalar values: inside the string it yields that
\* scalar, outside it fails with a RuntimeError, and never aborts.
C12_IndexChecked ==
    IndexEvaluated =>
        LET base == Sub(fn_in.expr.expr).v
            idx  == Sub(fn_in.expr.index).v
            r    == fn_out.result
        IN  /\ (base.tag = "Array" /\ idx.tag = "Integer" /\ ~InRange(idx.v, Len(base.v)))
                  => r.ok = "err" /\ r.v.kind = "Runtime"
            /\ (base.tag = "Map" /\ idx.tag = "String" /\ ~MapHas(base.v, idx.v))
                  => r.ok = "ok" /\ r.v.tag = "Unit"
            /\ (base.tag = "String" /\ idx.tag = "Integer")
                  => IF InRange(idx.v, Len(base.v))
                     THEN r.ok = "ok" /\ r.v.tag = "String"
                                      /\ r.v.v = <<base.v[idx.v + 1]>>
                     ELSE r.ok = "err" /\ r.v.kind = "Runtime"

(***************************************************************************)
(* Field access as a function: ShellObject::get_field and field_names on   *)
(* one object and one name.                                                *)
(***************************************************************************)
T_main == <<"m", "a", "i", "n">>
T_rs   == <<"/", "s", "/", "a", ".", "r", "s">>
T_dir  == <<"s", "/", "d">>

Files ==
    {[path |-> T_rs, size |-> 3, permissions |-> <<"r", "w">>],
     [path |-> <<"/">>, size |-> 0, permissions |-> <<>>]}

Directories ==
    {[path |-> T_dir, entries |-> <<<<"a">>, <<"b">>>>],
     [path |-> <<".", ".">>, entries |-> <<>>]}

Paths == {[path |-> p, on_disk |-> d] : p \in {T_rs, T_dir}, d \in {"file", "dir", "none"}}

Processes == {[pid |-> 7, name |-> <<"s", "h">>, command |-> <<"s", "h">>, status |-> <<"R">>]}

Commands ==
    {[name |-> <<"l", "s">>, args |-> <<<<"-", "l">>>>, env |-> <<[k |-> <<"k">>, v |-> <<"1">>]>>],
     [name |-> <<"l", "s">>, args |-> <<>>, env |-> <<>>]}

Environments == {[vars |-> <<[k |-> F_name, v |-> <<"1">>]>>]}

Functions ==
    {[name |-> T_main, signature |-> <<"f", "n">>, body |-> <<"{", "}">>]}

\* the names asked for: every declared name of some variant, and others
AskedNames ==
    {F_length, F_chars, F_bytes, F_is_empty, F_first, F_last, F_path, F_name,
     F_extension, F_size, F_permissions, F_entries, F_count, F_parent, F_filename,
     F_exists, F_is_file, F_is_dir, F_pid, F_command, F_status, F_args, F_env,
     F_signature, F_body, <<>>, <<"k">>, <<"N", "a", "m", "e">>}

Asking(o, name) == [f |-> "get_field", o |-> o, name |-> name]

InitObj ==
    /\ InitRepl
    /\ fn_out = Pending
    /\ \E name \in AskedNames :
          \/ \E f \in Files : fn_in = Asking(FileObj(f), name)
          \/ \E d \in Directories : fn_in = Asking(DirectoryObj(d), name)
          \/ \E p \in Paths : fn_in = Asking(PathObj(p), name)
          \/ \E p \in Processes : fn_in = Asking(ProcessObj(p), name)
          \/ \E c \in Commands : fn_in = Asking(CommandObj(c), name)
          \/ \E e \in Environments : fn_in = Asking(EnvironmentObj(e), name)
          \/ \E f \in Functions : fn_in = Asking(FunctionObj(f), name)
          \/ fn_in = Asking(StringObj(T_main), name)
          \/ fn_in = Asking(ArrayObj(<<UnitObj>>), name)
          \/ fn_in = Asking(MapObj(<<[k |-> <<"k">>, v |-> UnitObj]>>), name)
          \/ fn_in = Asking(IntegerObj(1), name)

GetField ==
    /\ fn_in.f = "get_field"
    /\ fn_out.tag = "Pending"
    /\ \E r \in {get_field(fn_in.o, fn_in.name)} :
       \E names \in {field_names(fn_in.o)} :
          fn_out' = [tag |-> "Field", result |-> r, names |-> names]
    /\ UNCHANGED <<replVars, fn_in>>

NextObj == GetField

SpecObj == InitObj /\ [][NextObj]_vars

RecordVariants == {"File", "Directory", "Path", "Process", "Command", "Function"}

\* the field set the variant's own type declares
DeclaredFields(o) ==
    CASE o.tag = "File"      -> FileObject_field_names(o.v)
      [] o.tag = "Directory" -> DirectoryObject_field_names(o.v)
      [] o.tag = "Path"      -> PathObject_field_names(o.v)
      [] o.tag = "Process"   -> ProcessObject_field_names(o.v)
      [] o.tag = "Command"   -> CommandObject_field_names(o.v)
      [] o.tag = "Function"  -> FunctionObject_field_names(o.v)

FieldAsked == fn_in.f = "get_field" /\ fn_out.tag = "Field"

\* C13: on a File, Directory, Path, Process, Command or Function, get_field
\* returns a Value exactly for the names of the variant's declared field set,
\* which field_names lists, and fails with an ObjectError for every other name.
C13_DeclaredFieldsOnly ==
    (FieldAsked /\ fn_in.o.tag \in RecordVariants) =>
        /\ fn_out.names = DeclaredFields(fn_in.o)
        /\ IF \E i \in 1..Len(DeclaredFields(fn_in.o)) :
                 DeclaredFields(fn_in.o)[i] = fn_in.name
           THEN fn_out.result.ok = "ok"
           ELSE fn_out.result.ok = "err" /\ fn_out.result.v.kind = "Object"

\* the same statement without the Function variant
C13_DispatchedVariants ==
    (FieldAsked /\ fn_in.o.tag \in RecordVariants \ {"Function"}) =>
        /\ fn_out.names = DeclaredFields(fn_in.o)
        /\ IF \E i \in 1..Len(DeclaredFields(fn_in.o)) :
                 DeclaredFields(fn_in.o)[i] = fn_in.name
           THEN fn_out.result.ok = "ok"
           ELSE fn_out.result.ok = "err" /\ fn_out.result.v.kind = "Object"

\* the expression forms evaluate_expr dispatches to an evaluating method
SupportedNodes ==
    {"Lit", "Path", "Binary", "Unary", "Paren", "Array", "Tuple", "Call",
     "MethodCall", "Field", "Index"}

UnsupportedNode(e) == e.node \notin SupportedNodes

\* the message that names the category of an unsupported expression
UnsupportedMessage(e) ==
    CASE e.node = "Block" -> "Block expressions not supported in simple evaluation"
      [] e.node = "If"    -> "If expressions not supported in simple evaluation"
      [] e.node = "Match" -> "Match expressions not supported in simple evaluation"
      [] OTHER            -> "Unsupported expression type"

FailsAsUnsupported(e) ==
    /\ fn_out.result.ok = "err"
    /\ fn_out.result.v = EvalError(UnsupportedMessage(e))

\* C14: a block, an if, a match and every other form outside the grammar fail
\* with an EvalError whose message names the category, at the top of the
\* expression and wherever the evaluation reaches them inside a supported
\* form; no value is produced and nothing is written.
C14_UnsupportedFails ==
    Evaluated =>
        /\ UnsupportedNode(fn_in.expr) =>
              FailsAsUnsupported(fn_in.expr) /\ fn_out.result.out = <<>>
        /\ (fn_in.expr.node \in {"Paren", "Unary"} /\ UnsupportedNode(fn_in.expr.expr)) =>
              FailsAsUnsupported(fn_in.expr.expr)
        /\ (/\ fn_in.expr.node = "Binary"
            /\ Sub(fn_in.expr.left).ok = "ok"
            /\ UnsupportedNode(fn_in.expr.right)) =>
              FailsAsUnsupported(fn_in.expr.right)
        /\ (/\ fn_in.expr.node = "Array"
            /\ Len(fn_in.expr.elems) = 2
            /\ Sub(fn_in.expr.elems[1]).ok = "ok"
            /\ UnsupportedNode(fn_in.expr.elems[2])) =>
              FailsAsUnsupported(fn_in.expr.elems[2])

\* `2 + if true { 2 } else { 2 }` has failed as an unsupported if expression
C14_Witness ==
    /\ Evaluated
    /\ fn_in.expr.node = "Binary"
    /\ Sub(fn_in.expr.left).ok = "ok"
    /\ fn_in.expr.right.node = "If"
    /\ fn_out.result.ok = "err"
    /\ fn_out.result.v.kind = "Eval"

\* xs.push(v) on a variable bound to an array, v having a value
PushEvaluated ==
    /\ Evaluated
    /\ fn_in.expr.node = "MethodCall"
    /\ fn_in.expr.method = M_push
    /\ Len(fn_in.expr.args) = 1
    /\ fn_in.expr.receiver.node = "Path"
    /\ fn_in.expr.receiver.segments[1] \in DOMAIN fn_in.vs
    /\ fn_in.vs[fn_in.expr.receiver.segments[1]].tag = "Array"
    /\ Sub(fn_in.expr.args[1]).ok = "ok"

\* C15: an evaluation, successful or failed, leaves the variable table as it
\* was; xs.push(v) returns the array of xs with v appended while xs still holds
\* the original array.
C15_EnvironmentUnchanged ==
    /\ Evaluated => fn_out.variables = fn_in.vs
    /\ PushEvaluated =>
          LET xs == fn_in.expr.receiver.segments[1]
              v  == Sub(fn_in.expr.args[1]).v
          IN  /\ fn_out.result.ok = "ok"
              /\ fn_out.result.v.tag = "Array"
              /\ Len(fn_out.result.v.v) = Len(fn_in.vs[xs].v) + 1
              /\ SubSeq(fn_out.result.v.v, 1, Len(fn_in.vs[xs].v)) = fn_in.vs[xs].v
              /\ SameObject(fn_out.result.v.v[Len(fn_out.result.v.v)], v)
              /\ fn_out.variables[xs] = fn_in.vs[xs]

\* xs.push(3) has returned [1, 2, 3] and xs is still [1, 2]
C15_Witness ==
    /\ PushEvaluated
    /\ fn_out.result.ok = "ok"
    /\ Len(fn_out.result.v.v) = 3
    /\ Len(fn_out.variables[N_xs].v) = 2

\* an evaluation that failed after the table was read
C15_FailureWitness ==
    /\ Evaluated
    /\ fn_in.expr.node = "Binary"
    /\ fn_in.expr.left.node = "Path"
    /\ fn_out.result.ok = "err"
    /\ fn_out.variables = fn_in.vs

(***************************************************************************)
(* The shell (src/src/shell.rs): Shell::execute_command and what it calls. *)
(* The state of a Shell is the record sh of its alias table, environment   *)
(* table and current directory; its ReplEngine is the engine modelled      *)
(* above.                                                                  *)
(***************************************************************************)
CommandError(m)         == [kind |-> "Command", msg |-> m]
FileNotFound(path)      == [kind |-> "FileNotFound", msg |-> path]
ExternalCommandError(m) == [kind |-> "ExternalCommand", msg |-> m]

B_cd    == <<"c", "d">>
B_pwd   == <<"p", "w", "d">>
B_ls    == <<"l", "s">>
B_echo  == <<"e", "c", "h", "o">>
B_env   == <<"e", "n", "v">>
B_alias == <<"a", "l", "i", "a", "s">>
B_which == <<"w", "h", "i", "c", "h">>
B_type  == <<"t", "y", "p", "e">>
B_exit  == <<"e", "x", "i", "t">>
B_quit  == <<"q", "u", "i", "t">>
A_cat   == <<"c", "a", "t">>
A_rustc == <<"r", "u", "s", "t", "c">>
A_cargo == <<"c", "a", "r", "g", "o">>

\* the names try_builtin_command handles
Builtins == {B_cd, B_pwd, B_ls, B_echo, B_env, B_alias, B_which, B_type, B_exit, B_quit}

\* config.rs, create_default_aliases
create_default_aliases ==
    (B_ls    :> <<"s", "t", "d", ":", ":", "f", "s", ":", ":", "r", "e", "a", "d", "_",
          "d", "i", "r", "(", Quote, ".", Quote, ")", ".", "u", "n", "w", "r", "a",
          "p", "(", ")", ".", "c", "o", "l", "l", "e", "c", "t", ":", ":", "<",
          "R", "e", "s", "u", "l", "t", "<", "V", "e", "c", "<", "_", ">", ",",
          " ", "_", ">", ">", "(", ")", ".", "u", "n", "w", "r", "a", "p", "(",
          ")">>) @@
    (B_pwd   :> <<"s", "t", "d", ":", ":", "e", "n", "v", ":", ":", "c", "u", "r", "r",
          "e", "n", "t", "_", "d", "i", "r", "(", ")", ".", "u", "n", "w", "r",
          "a", "p", "(", ")">>) @@
    (B_cd    :> <<"s", "t", "d", ":", ":", "e", "n", "v", ":", ":", "s", "e", "t", "_",
          "c", "u", "r", "r", "e", "n", "t", "_", "d", "i", "r">>) @@
    (A_cat   :> <<"s", "t", "d", ":", ":", "f", "s", ":", ":", "r", "e", "a", "d", "_",
          "t", "o", "_", "s", "t", "r", "i", "n", "g">>) @@
    (B_echo  :> <<"p", "r", "i", "n", "t", "l", "n", "!">>) @@
    (A_rustc :> <<"s", "t", "d", ":", ":", "p", "r", "o", "c", "e", "s", "s", ":", ":",
          "C", "o", "m", "m", "a", "n", "d", ":", ":", "n", "e", "w", "(", Quote,
          "r", "u", "s", "t", "c", Quote, ")">>) @@
    (A_cargo :> <<"s", "t", "d", ":", ":", "p", "r", "o", "c", "e", "s", "s", ":", ":",
          "C", "o", "m", "m", "a", "n", "d", ":", ":", "n", "e", "w", "(", Quote,
          "c", "a", "r", "g", "o", Quote, ")">>)

\* str::split_whitespace
RECURSIVE split_whitespace(_)
split_whitespace(s) ==
    IF s = <<>> THEN <<>>
    ELSE IF s[1] \in WhiteSpace THEN split_whitespace(Tail(s))
    ELSE LET ws == {i \in 1..Len(s) : s[i] \in WhiteSpace}
             n  == IF ws = {} THEN Len(s)
                   ELSE (CHOOSE i \in ws : \A j \in ws : i <= j) - 1
         IN  <<SubSeq(s, 1, n)>> \o split_whitespace(Drop(s, n))

\* str::find of one character: the first position, 0 when absent
Find(s, c) ==
    LET at == {i \in 1..Len(s) : s[i] = c}
    IN  IF at = {} THEN 0 ELSE CHOOSE i \in at : \A j \in at : i <= j

\* HashMap::insert on a table kept as a function
Insert(table, key, value) ==
    [k \in DOMAIN table \cup {key} |-> IF k = key THEN value ELSE table[k]]

\* the enumerations of a key set: the orders in which a HashMap can be iterated
Orders(keys) ==
    {o \in [1..Cardinality(keys) -> keys] : \A k \in keys : \E i \in DOMAIN o : o[i] = k}

\* a table of texts collected into a Map of Strings, iterated in order
TableMap(table, order) ==
    MapObj([i \in 1..Len(order) |-> [k |-> order[i], v |-> StringObj(table[order[i]])]])

\* Shell::resolve_alias
resolve_alias(command, aliases) ==
    LET parts == split_whitespace(command)
    IN  IF parts = <<>> THEN [some |-> FALSE, v |-> <<>>]
        ELSE IF parts[1] \in DOMAIN aliases
             THEN IF Len(parts) > 1
                  THEN [some |-> TRUE,
                        v |-> aliases[parts[1]] \o <<" ">> \o Join(Tail(parts), <<" ">>)]
                  ELSE [some |-> TRUE, v |-> aliases[parts[1]]]
             ELSE [some |-> FALSE, v |-> <<>>]

T_home == <<"/", "r", "o", "o", "t">>
T_PWD  == <<"P", "W", "D">>

\* Shell::expand_path; the home directory is T_home
expand_path(path, sh) ==
    IF path = <<"~">> THEN T_home
    ELSE IF StartsWith(path, <<"~", "/">>) THEN T_home \o <<"/">> \o Drop(path, 2)
    ELSE IF StartsWith(path, <<".">>) THEN sh.current_dir \o <<"/">> \o path
    ELSE path

\* Shell::change_directory; w.fs is what the file system holds at the path
\* and the canonical path is the joined path
change_directory(path, sh, w) ==
    LET new_path == IF IsAbsolute(path) THEN path ELSE sh.current_dir \o <<"/">> \o path
    IN  IF w.fs = "none" THEN [result |-> Err(FileNotFound(new_path)), sh |-> sh]
        ELSE IF w.fs = "file"
        THEN [result |-> Err(CommandError("Not a directory")), sh |-> sh]
        ELSE [result |-> Ok(UnitObj),
              sh |-> [sh EXCEPT !.current_dir = new_path,
                                !.env = Insert(sh.env, T_PWD, new_path)]]

\* commands.rs, CommandRegistry::register_builtin_commands: the names that
\* CommandRegistry::has_command knows
RegisteredCommands ==
    {A_cat, <<"h", "e", "a", "d">>, <<"t", "a", "i", "l">>, <<"w", "c">>, <<"f", "i", "n", "d">>, <<"g", "r", "e", "p">>, <<"s", "o", "r", "t">>, <<"u", "n", "i", "q">>, <<"p", "s">>, <<"d", "f">>,
     <<"p", "i", "n", "g">>, <<"h", "e", "l", "p">>}

\* the outcome of a built-in: handled is FALSE for `Ok(None)`
Builtin(handled, result, sh, out, exit) ==
    [handled |-> handled, result |-> result, sh |-> sh, out |-> out, exit |-> exit]

Handled(result, sh) == Builtin(TRUE, result, sh, <<>>, FALSE)

\* Shell::try_builtin_command.  w is the world outside the shell during the
\* call: fs for the path asked about, found for the program looked up on
\* PATH, order for the iteration of a table.
try_builtin_command(command, sh, w) ==
    LET parts == split_whitespace(command)
        cmd   == parts[1]
        args  == Tail(parts)
    IN  IF parts = <<>> THEN Builtin(FALSE, Ok(UnitObj), sh, <<>>, FALSE)
        ELSE CASE cmd = B_cd ->
                   LET target == IF args = <<>> THEN T_home ELSE expand_path(args[1], sh)
                       moved  == change_directory(target, sh, w)
                   IN  IF moved.result.ok = "err" THEN Handled(moved.result, sh)
                       ELSE Handled(Ok(StringObj(<<"C", "h", "a", "n", "g", "e", "d", " ", "t", "o", " ">> \o target)), moved.sh)
               [] cmd = B_pwd -> Handled(Ok(StringObj(sh.current_dir)), sh)
               [] cmd = B_ls ->
                   IF w.fs = "dir" THEN Handled(Ok(ArrayObj(<<>>)), sh)
                   ELSE Handled(Err([kind |-> "Io", msg |-> "read_dir"]), sh)
               [] cmd = B_echo ->
                   Builtin(TRUE, Ok(StringObj(Join(args, <<" ">>))), sh,
                           Join(args, <<" ">>) \o <<"\n">>, FALSE)
               [] cmd = B_env ->
                   IF args = <<>> THEN Handled(Ok(TableMap(sh.env, w.order)), sh)
                   ELSE IF Find(args[1], "=") > 0
                   THEN LET eq_pos == Find(args[1], "=")
                            key    == SubSeq(args[1], 1, eq_pos - 1)
                            value  == Drop(args[1], eq_pos)
                        IN  Handled(Ok(StringObj(<<"S", "e", "t", " ">> \o key \o <<"=">> \o value)),
                                    [sh EXCEPT !.env = Insert(sh.env, key, value)])
                   ELSE Handled(Ok(StringObj(IF args[1] \in DOMAIN sh.env
                                             THEN sh.env[args[1]] ELSE <<>>)), sh)
               [] cmd = B_alias ->
                   IF args = <<>> THEN Handled(Ok(TableMap(sh.aliases, w.order)), sh)
                   ELSE IF Len(args) = 1 /\ Find(args[1], "=") > 0
                   THEN LET eq_pos == Find(args[1], "=")
                            key    == SubSeq(args[1], 1, eq_pos - 1)
                            value  == Drop(args[1], eq_pos)
                        IN  Handled(Ok(StringObj(<<"S", "e", "t", " ", "a", "l", "i", "a", "s", " ">> \o key \o <<"=">> \o value)),
                                    [sh EXCEPT !.aliases = Insert(sh.aliases, key, value)])
                   ELSE Handled(Ok(StringObj(IF args[1] \in DOMAIN sh.aliases
                                             THEN sh.aliases[args[1]] ELSE <<>>)), sh)
               [] cmd = B_which ->
                   IF args = <<>> THEN Handled(Err(CommandError("which: missing argument")), sh)
                   ELSE IF w.found THEN Handled(Ok(StringObj(<<"/", "b", "i", "n", "/">> \o args[1])), sh)
                   ELSE Handled(Ok(StringObj(args[1] \o <<":", " ", "n", "o", "t", " ", "f", "o", "u", "n", "d">>)), sh)
               [] cmd = B_type ->
                   IF args = <<>> THEN Handled(Err(CommandError("type: missing argument")), sh)
                   ELSE IF args[1] \in DOMAIN sh.aliases
                   THEN Handled(Ok(StringObj(args[1] \o <<" ", "i", "s", " ", "a", "n", " ", "a", "l", "i", "a", "s">>)), sh)
                   ELSE IF args[1] \in RegisteredCommands
                   THEN Handled(Ok(StringObj(args[1] \o <<" ", "i", "s", " ", "a", " ", "b", "u", "i", "l", "t", "i", "n", " ",
          "c", "o", "m", "m", "a", "n", "d">>)), sh)
                   ELSE IF w.found
                   THEN Handled(Ok(StringObj(args[1] \o <<" ", "i", "s", " ", "/", "b", "i", "n", "/">> \o args[1])), sh)
                   ELSE Handled(Ok(StringObj(args[1] \o <<":", " ", "n", "o", "t", " ", "f", "o", "u", "n", "d">>)), sh)
               [] cmd \in {B_exit, B_quit} -> Builtin(TRUE, Ok(UnitObj), sh, <<>>, TRUE)
               [] OTHER -> Builtin(FALSE, Ok(UnitObj), sh, <<>>, FALSE)

\* Shell::parse_command_line from position i on
RECURSIVE ParseFrom(_, _, _, _, _, _)
ParseFrom(s, i, parts, current, in_quotes, escape_next) ==
    IF i > Len(s)
    THEN [parts |-> IF current # <<>> THEN Append(parts, current) ELSE parts,
          in_quotes |-> in_quotes]
    ELSE IF escape_next
         THEN ParseFrom(s, i + 1, parts, Append(current, s[i]), in_quotes, FALSE)
    ELSE IF s[i] = "\\" THEN ParseFrom(s, i + 1, parts, current, in_quotes, TRUE)
    ELSE IF s[i] \in {Quote, "'"}
         THEN ParseFrom(s, i + 1, parts, current, ~in_quotes, FALSE)
    ELSE IF s[i] \in WhiteSpace /\ ~in_quotes
         THEN IF current # <<>>
              THEN ParseFrom(s, i + 1, Append(parts, current), <<>>, in_quotes, FALSE)
              ELSE ParseFrom(s, i + 1, parts, current, in_quotes, FALSE)
    ELSE ParseFrom(s, i + 1, parts, Append(current, s[i]), in_quotes, FALSE)

parse_command_line(command) ==
    LET p == ParseFrom(command, 1, <<>>, <<>>, FALSE, FALSE)
    IN  IF p.in_quotes THEN Err(ParseError("Unterminated quote")) ELSE Ok(p.parts)

\* Shell::execute_external_command; w.ext is the course of the program:
\* not_found on PATH, spawn_fail, failed (nonzero exit status) or ok
execute_external_command(command, sh, w) ==
    LET parsed == parse_command_line(command)
    IN  IF parsed.ok = "err" THEN parsed
        ELSE IF parsed.v = <<>> THEN Ok(UnitObj)
        ELSE IF /\ Find(parsed.v[1], "/") = 0
                /\ Find(parsed.v[1], "\\") = 0
                /\ w.ext = "not_found"
        THEN Err(CommandError("Command not found"))
        ELSE IF w.ext \in {"not_found", "spawn_fail"}
        THEN Err(CommandError("Failed to execute"))
        ELSE IF w.ext = "failed" THEN Err(ExternalCommandError(parsed.v[1]))
        ELSE Ok(StringObj(w.stdout))

\* ReplEngine::execute_line as a function of the engine's state
execute_line(line, env, vs, history, exe) ==
    IF Trim(line) = <<>> \/ handle_special_command(line) # "none"
    THEN [NotRun(history, exe) EXCEPT !.result = Ok(UnitObj)]
    ELSE execute_rust_code(line, env, vs, history, exe)

\* the outcome of execute_command: route lists the dispatches taken, in order
Shelled(result, sh, history, exe, out, exit, route) ==
    [result |-> result, sh |-> sh, code_history |-> history, exe |-> exe,
     out |-> out, exit |-> exit, route |-> route]

Routed(kind, x) == [x EXCEPT !.route = <<kind>> \o x.route]

\* the REPL arm and the external arm of execute_command
ReplArm(command, sh, vs, history, exe, w) ==
    CHOOSE y \in
        {IF x.result.ok = "ok"
         THEN Shelled(x.result, sh, x.code_history, x.exe, <<>>, FALSE, <<"repl">>)
         ELSE IF x.result.ok = "panic"
         THEN Shelled(Aborted, sh, x.code_history, x.exe, <<>>, FALSE, <<"repl">>)
         ELSE Shelled(execute_external_command(command, sh, w), sh, x.code_history,
                      x.exe, <<>>, FALSE, <<"repl", "external">>)
         : x \in {execute_line(command, w.env, vs, history, exe)}} : TRUE

\* Shell::execute_command.  seen holds the commands already replaced in this
\* call.  Nothing changes between two replacements, so a command that comes
\* back is replaced without end, and the call never returns.
RECURSIVE execute_command(_, _, _, _, _, _, _)
execute_command(line, sh, vs, history, exe, w, seen) ==
    LET command == Trim(line)
    IN  IF command = <<>>
        THEN Shelled(Ok(UnitObj), sh, history, exe, <<>>, FALSE, <<"empty">>)
        ELSE CHOOSE y \in
            {IF b.result.ok = "err"
             THEN Shelled(b.result, sh, history, exe, <<>>, FALSE, <<"builtin">>)
             ELSE IF b.handled
             THEN Shelled(b.result, b.sh, history, exe, b.out, b.exit, <<"builtin">>)
             ELSE IF resolve_alias(command, sh.aliases).some
             THEN IF command \in seen
                  THEN Shelled(Aborted, sh, history, exe, <<>>, FALSE, <<"alias", "diverges">>)
                  ELSE Routed("alias",
                           execute_command(resolve_alias(command, sh.aliases).v, sh, vs,
                                           history, exe, w,
                                           seen \cup {command}))
             ELSE ReplArm(command, sh, vs, history, exe, w)
             : b \in {try_builtin_command(command, sh, w)}} : TRUE

(***************************************************************************)
(* The shell as a state machine: one action per call of execute_command.   *)
(***************************************************************************)
\* Shell::new with the default configuration, started in T_home
ShellNew ==
    [aliases     |-> create_default_aliases,
     env         |-> (T_PWD :> T_home),
     current_dir |-> T_home]

ShellCommands ==
    {<<"l", "s">>, <<"p", "w", "d">>, <<"c", "d", " ", "/", "t", "m", "p">>, <<"e", "c", "h", "o", " ", "a", " ", " ", "b">>, <<"c", "a", "t", " ", "f">>, <<"r", "u", "s", "t", "c">>, <<"a", "l", "i", "a", "s", " ", "l", "l", "=", "l", "s">>, <<"l", "l", " ", "-", "l">>,
     <<"a", "l", "i", "a", "s", " ", "x", "=", "x">>, <<"x">>, <<"4", "2">>, <<" ", " ">>, <<"e", "x", "i", "t">>, <<"t", "y", "p", "e", " ", "c", "a", "t">>, <<"t", "y", "p", "e", " ", "w", "c">>, <<"w", "h", "i", "c", "h", " ", "s", "h">>, <<"e", "n", "v">>,
     <<"e", "n", "v", " ", "K", "=", "1">>, <<"n", "o", "s", "u", "c", "h">>, <<Quote>>,
     <<"a", "l", "i", "a", "s", " ", "a", "=">>, <<"a", " ", "a">>}

\* the command execute_command ends up dispatching after alias replacement
RECURSIVE Expanded(_, _, _)
Expanded(line, aliases, seen) ==
    LET command == Trim(line)
        parts   == split_whitespace(command)
    IN  IF \/ parts = <<>>
           \/ parts[1] \in Builtins
           \/ parts[1] \notin DOMAIN aliases
           \/ command \in seen
        THEN command
        ELSE Expanded(resolve_alias(command, aliases).v, aliases, seen \cup {command})

World(fs, found, order, env, ext) ==
    [fs |-> fs, found |-> found, order |-> order, env |-> env, ext |-> ext,
     stdout |-> <<"o", "k">> \o <<"\n">>]

Shelling == [f |-> "execute_command", sh |-> ShellNew, exited |-> FALSE]

InitShell ==
    /\ InitRepl
    /\ fn_in = Shelling
    /\ fn_out = Pending

\* one call of Shell::execute_command; the parts of the world the command
\* does not touch are left at one value
ShellExecute(line) ==
    /\ fn_in.f = "execute_command"
    /\ ~fn_in.exited
    /\ session # "aborted"
    /\ steps < MaxCommands
    /\ steps' = steps + 1
    /\ LET final == Expanded(line, fn_in.sh.aliases, {})
           parts == split_whitespace(final)
           inner == parts = <<>> \/ parts[1] \in Builtins
       IN  \E fs \in IF parts # <<>> /\ parts[1] \in {B_cd, B_ls}
                     THEN {"dir", "file", "none"} ELSE {"dir"} :
           \E found \in IF parts # <<>> /\ parts[1] \in {B_which, B_type}
                        THEN BOOLEAN ELSE {TRUE} :
           \E order \in IF parts = <<B_alias>> THEN Orders(DOMAIN fn_in.sh.aliases)
                        ELSE IF parts = <<B_env>> THEN Orders(DOMAIN fn_in.sh.env)
                        ELSE {<<>>} :
           \E env \in IF inner THEN {EnvOf("ok", "ok", "ok", FALSE, "ok", FALSE, <<>>)}
                      ELSE EnvsFor(final, variables) :
           \E ext \in IF inner THEN {"ok"}
                      ELSE {"not_found", "spawn_fail", "failed", "ok"} :
           \E x \in {execute_command(line, fn_in.sh, variables, code_history, exe_exists,
                                     World(fs, found, order, env, ext), {})} :
              /\ fn_in' = [fn_in EXCEPT !.sh = x.sh, !.exited = x.exit]
              /\ fn_out' = [tag |-> "Dispatched", command |-> Trim(line),
                            aliases |-> fn_in.sh.aliases, route |-> x.route,
                            result |-> x.result, out |-> x.out]
              /\ code_history' = x.code_history
              /\ exe_exists' = x.exe
              /\ session' = IF x.result.ok = "panic" THEN "aborted" ELSE session
    /\ UNCHANGED <<variables, functions, imports, multiline_mode, prompt_multiline,
                   continuation_buffer, last>>

NextShell == \E line \in ShellCommands : ShellExecute(line)

SpecShell == InitShell /\ [][NextShell]_vars

(***************************************************************************)
(* Claims about the shell (SpecShell).                                     *)
(***************************************************************************)
Dispatched == fn_in.f = "execute_command" /\ fn_out.tag = "Dispatched"

\* the leading token of the command is a key of the alias table of the call
LeadsWithAlias ==
    /\ Dispatched
    /\ split_whitespace(fn_out.command) # <<>>
    /\ split_whitespace(fn_out.command)[1] \in DOMAIN fn_out.aliases

\* C16: a command whose leading token is a key of the alias table is replaced
\* by its alias before any other dispatch: the first dispatch of the call is
\* the alias replacement, never a built-in.
C16_AliasBeforeDispatch ==
    LeadsWithAlias => fn_out.route[1] = "alias"

\* the same, for the leading tokens that no built-in handles
C16_AliasBeforeRepl ==
    (LeadsWithAlias /\ split_whitespace(fn_out.command)[1] \notin Builtins) =>
        fn_out.route[1] = "alias"

\* `cat f` has been replaced and handed to the REPL
C16_AliasReachedRepl ==
    /\ LeadsWithAlias
    /\ fn_out.route[1] = "alias"
    /\ fn_out.route[2] = "repl"

(***************************************************************************)
(* syn::parse_str::<Expr> on the texts of a small grammar: integer, float  *)
(* and string literals without escapes or suffixes, true and false,        *)
(* identifiers, parentheses, unary minus and the binary operators + - * /  *)
(* with their precedence.  A text outside this grammar is given to the     *)
(* model only when it is no Rust expression at all.                        *)
(***************************************************************************)
Token(kind, text) == [kind |-> kind, text |-> text]

\* the tokens of s; a character no token starts with ends the list with bad
RECURSIVE Tokens(_)
Tokens(s) ==
    IF s = <<>> THEN <<>>
    ELSE IF s[1] \in WhiteSpace THEN Tokens(Tail(s))
    ELSE IF s[1] \in Digit
         THEN LET n == RunLen(s, 1, Digit)
                  m == IF n + 1 < Len(s) /\ s[n + 1] = "." /\ s[n + 2] \in Digit
                       THEN 1 + RunLen(s, n + 2, Digit)
                       ELSE IF n + 1 = Len(s) /\ s[n + 1] = "." THEN 1 ELSE 0
              IN  <<Token(IF m = 0 THEN "int" ELSE "float", SubSeq(s, 1, n + m))>>
                  \o Tokens(Drop(s, n + m))
    ELSE IF s[1] = Quote
         THEN LET close == Find(Tail(s), Quote)
              IN  IF close = 0 \/ Find(SubSeq(s, 2, close), "\\") > 0
                  THEN <<Token("bad", s)>>
                  ELSE <<Token("str", SubSeq(s, 2, close))>> \o Tokens(Drop(s, close + 1))
    ELSE IF s[1] \in Letter \cup {"_"}
         THEN LET n == RunLen(s, 1, WordChar)
              IN  <<Token("ident", SubSeq(s, 1, n))>> \o Tokens(Drop(s, n))
    ELSE IF s[1] \in {"+", "-", "*", "/", "(", ")"}
         THEN <<Token(s[1], <<s[1]>>)>> \o Tokens(Tail(s))
    ELSE <<Token("bad", s)>>

ParsedAs(ok, expr, rest) == [ok |-> ok, expr |-> expr, rest |-> rest]

NotParsed == ParsedAs(FALSE, ExprTuple(<<>>), <<>>)

BinOpOf(kind) ==
    CASE kind = "+" -> "Add" [] kind = "-" -> "Sub" [] kind = "*" -> "Mul" [] kind = "/" -> "Div"

\* the words that are no identifier
Keywords == {<<"l", "e", "t">>, <<"i", "f">>, <<"f", "n">>}

RECURSIVE ParseSum(_)
RECURSIVE ParseSumRest(_, _)
RECURSIVE ParseProduct(_)
RECURSIVE ParseProductRest(_, _)
RECURSIVE ParseUnary(_)

\* a literal, a path of one segment or a parenthesised expression
ParseAtom(toks) ==
    IF toks = <<>> THEN NotParsed
    ELSE CASE toks[1].kind = "int"   -> ParsedAs(TRUE, LitInt(toks[1].text), Tail(toks))
           [] toks[1].kind = "float" -> ParsedAs(TRUE, LitFloat(toks[1].text), Tail(toks))
           [] toks[1].kind = "str"   -> ParsedAs(TRUE, LitStr(toks[1].text), Tail(toks))
           [] toks[1].kind = "ident" ->
                IF toks[1].text = <<"t", "r", "u", "e">> THEN ParsedAs(TRUE, LitBool(TRUE), Tail(toks))
                ELSE IF toks[1].text = <<"f", "a", "l", "s", "e">> THEN ParsedAs(TRUE, LitBool(FALSE), Tail(toks))
                ELSE IF toks[1].text \in Keywords THEN NotParsed
                ELSE ParsedAs(TRUE, Var(toks[1].text), Tail(toks))
           [] toks[1].kind = "(" ->
                LET inner == ParseSum(Tail(toks))
                IN  IF inner.ok /\ inner.rest # <<>> /\ inner.rest[1].kind = ")"
                    THEN ParsedAs(TRUE, ExprParen(inner.expr), Tail(inner.rest))
                    ELSE NotParsed
           [] OTHER -> NotParsed

ParseUnary(toks) ==
    IF toks # <<>> /\ toks[1].kind = "-"
    THEN LET operand == ParseUnary(Tail(toks))
         IN  IF operand.ok THEN ParsedAs(TRUE, ExprUnary("Neg", operand.expr), operand.rest)
             ELSE NotParsed
    ELSE ParseAtom(toks)

ParseProductRest(left, toks) ==
    IF toks # <<>> /\ toks[1].kind \in {"*", "/"}
    THEN LET right == ParseUnary(Tail(toks))
         IN  IF right.ok
             THEN ParseProductRest(ExprBinary(BinOpOf(toks[1].kind), left, right.expr),
                                   right.rest)
             ELSE NotParsed
    ELSE ParsedAs(TRUE, left, toks)

ParseProduct(toks) ==
    LET left == ParseUnary(toks)
    IN  IF left.ok THEN ParseProductRest(left.expr, left.rest) ELSE NotParsed

ParseSumRest(left, toks) ==
    IF toks # <<>> /\ toks[1].kind \in {"+", "-"}
    THEN LET right == ParseProduct(Tail(toks))
         IN  IF right.ok
             THEN ParseSumRest(ExprBinary(BinOpOf(toks[1].kind), left, right.expr),
                               right.rest)
             ELSE NotParsed
    ELSE ParsedAs(TRUE, left, toks)

ParseSum(toks) ==
    LET left == ParseProduct(toks)
    IN  IF left.ok THEN ParseSumRest(left.expr, left.rest) ELSE NotParsed

\* syn::parse_str: the whole text must be one expression
syn_parse_str(s) ==
    LET p == ParseSum(Tokens(s))
    IN  IF p.ok /\ p.rest = <<>> THEN p ELSE NotParsed

\* EvaluationEngine::evaluate_expression
EvaluationEngine_evaluate_expression(expr_str, vs) ==
    CHOOSE r \in
        {IF p.ok THEN evaluate_expr(p.expr, vs)
         ELSE Done(Err(ParseError("Failed to parse expression")), <<>>)
         : p \in {syn_parse_str(expr_str)}} : TRUE

(***************************************************************************)
(* The fast path against the evaluator: a line is drawn in the initial     *)
(* state and one action hands it to ReplEngine::execute_rust_code.         *)
(***************************************************************************)
FastLines ==
    {<<"2", " ", "+", " ", "3">>, <<Quote, "a", Quote, " ", "+", " ", Quote, "b", Quote>>, <<"4", "2">>, <<"-", "5">>, <<"1", ".", "5">>, <<"t", "r", "u", "e">>, <<Quote, "a", "b", Quote>>, <<"l", "e", "t", " ", "x", " ", "=", " ", "2", " ", "+", " ", "3">>,
     <<"l", "e", "t", " ", "x", " ", "=", " ", "4", "2">>, <<"(", "1", ")">>, <<"2", " ", "*", " ", "3", " ", "-", " ", "1">>, <<"1", " ", "/", " ", "0">>, <<"y">>, <<"2", " ", "+">>, <<" ", "7", " ">>, <<"-", "(", "2", ")">>,
     <<"l", "e", "t", " ", "s", " ", "=", " ", Quote, "a", Quote>>, <<Quote, "a", Quote, " ", "-", " ", "1">>, <<"1", "0", " ", "/", " ", "4">>, <<"l", "e", "t">>}

Executing(line) == [f |-> "execute_rust_code", line |-> line]

InitFast ==
    /\ InitRepl
    /\ fn_out = Pending
    /\ \E line \in FastLines : fn_in = Executing(line)

FastExecute ==
    /\ fn_in.f = "execute_rust_code"
    /\ fn_out.tag = "Pending"
    /\ \E env \in EnvsFor(fn_in.line, variables) :
       \E x \in {execute_rust_code(fn_in.line, env, variables, code_history, exe_exists)} :
          /\ fn_out' = [tag |-> "Executed", result |-> x.result, fast |-> x.fast,
                        pipe |-> x.pipe, pipe_args |-> x.pipe_args]
          /\ code_history' = x.code_history
          /\ exe_exists' = x.exe
          /\ session' = IF x.result.ok = "panic" THEN "aborted" ELSE session
    /\ UNCHANGED <<variables, functions, imports, multiline_mode, prompt_multiline,
                   continuation_buffer, steps, last, fn_in>>

NextFast == FastExecute

SpecFast == InitFast /\ [][NextFast]_vars

(***************************************************************************)
(* Claims about the fast path (SpecFast).                                  *)
(***************************************************************************)
FastExecuted == fn_in.f = "execute_rust_code" /\ fn_out.tag = "Executed"

\* what the evaluator makes of the line, or of the right-hand side of a let
EngineOn(line) ==
    EvaluationEngine_evaluate_expression(
        IF LetCapture(Trim(line)).ok THEN LetCapture(Trim(line)).value_expr
        ELSE Trim(line), variables)

\* C17: whenever EvaluationEngine::evaluate_expression succeeds on the line,
\* or on the right-hand side of a let, the orchestrator returns that same
\* value and does not invoke the pipeline.
C17_FastPathIsEvaluator ==
    (FastExecuted /\ EngineOn(fn_in.line).ok = "ok") =>
        /\ fn_out.pipe.ok = "none"
        /\ fn_out.result.ok = "ok"
        /\ SameObject(fn_out.result.v, EngineOn(fn_in.line).v)

\* the same, for the lines that are one literal
C17_LiteralsAgree ==
    (/\ FastExecuted
     /\ syn_parse_str(Trim(fn_in.line)).ok
     /\ syn_parse_str(Trim(fn_in.line)).expr.node = "Lit"
     /\ EngineOn(fn_in.line).ok = "ok") =>
        /\ fn_out.pipe.ok = "none"
        /\ fn_out.result.ok = "ok"
        /\ SameObject(fn_out.result.v, EngineOn(fn_in.line).v)

\* `42` has been returned by the fast path as the evaluator returns it
C17_LiteralWitness ==
    /\ FastExecuted
    /\ fn_in.line = <<"4", "2">>
    /\ fn_out.pipe.ok = "none"
    /\ fn_out.result.ok = "ok"
    /\ fn_out.result.v.tag = "Integer"
    /\ EngineOn(fn_in.line).ok = "ok"

(***************************************************************************)
(* The pipeline as a function of the toolchain and of the clock: the       *)
(* course of one call of compile_and_execute is drawn in the initial state *)
(* and one action makes the call.  prep is the time from the start of      *)
(* compile_and_execute to the spawning of rustc, compile_ms and run_ms are *)
(* the durations of the two external calls, in milliseconds.               *)
(***************************************************************************)
compile_timeout_ms == 5000

execution_timeout_ms == 30000

PrepTimes == {0, 200}

CompileTimes == {100, 4900, 5000, 5001}

RunTimes == {100, 30000, 30001}

\* start_time is taken on entry, compile_duration after rustc has returned;
\* exec_start is taken just before the program is spawned
Timed(env, prep, compile_ms, run_ms) ==
    [env EXCEPT !.compile_slow = prep + compile_ms > compile_timeout_ms,
                !.run_slow     = run_ms > execution_timeout_ms]

Courses ==
    {[EnvOf(t, w, c, FALSE, r, FALSE, out) EXCEPT !.diagnostics = d, !.errors = e] :
        t \in {"ok", "fail"}, w \in {"ok", "fail"},
        c \in {"spawn_fail", "failed", "ok"}, r \in {"spawn_fail", "nonzero", "ok"},
        out \in {<<>>, <<"1", "5", "\n">>}, d \in {<<>>, <<"E", "0", "3">>},
        e \in {<<"p", "a", "n", "i", "c">>}}

Piping(env, prep, compile_ms, run_ms) ==
    [f |-> "compile_and_execute", code |-> LineSum, env |-> env, prep |-> prep,
     compile_ms |-> compile_ms, run_ms |-> run_ms]

InitPipe ==
    /\ InitRepl
    /\ fn_out = Pending
    /\ \E env \in Courses, prep \in PrepTimes, compile_ms \in CompileTimes,
          run_ms \in RunTimes :
          fn_in = Piping(env, prep, compile_ms, run_ms)

Pipe ==
    /\ fn_in.f = "compile_and_execute"
    /\ fn_out.tag = "Pending"
    /\ \E x \in {compile_and_execute(fn_in.code,
                     Timed(fn_in.env, fn_in.prep, fn_in.compile_ms, fn_in.run_ms),
                     code_history)} :
          /\ fn_out' = [tag |-> "Piped", result |-> x.result,
                        compiled |-> x.compiled, ran |-> x.ran]
          /\ code_history' = x.code_history
          /\ exe_exists' = x.exe
          /\ session' = IF x.result.ok = "panic" THEN "aborted" ELSE session
    /\ UNCHANGED <<variables, functions, imports, multiline_mode, prompt_multiline,
                   continuation_buffer, steps, last, fn_in>>

NextPipe == Pipe

SpecPipe == InitPipe /\ [][NextPipe]_vars

(***************************************************************************)
(* Claims about the pipeline (SpecPipe).                                   *)
(***************************************************************************)
Piped == fn_in.f = "compile_and_execute" /\ fn_out.tag = "Piped"

CompileTimeout ==
    /\ fn_out.result.ok = "err"
    /\ fn_out.result.v.kind = "Compilation"
    /\ fn_out.result.v.msg = "Compilation timeout"

ExecutionTimeout ==
    /\ fn_out.result.ok = "err"
    /\ fn_out.result.v.kind = "Runtime"
    /\ fn_out.result.v.msg = "Execution timeout"

\* C18: in each phase, a call that took longer than the budget of the phase
\* makes the invocation return the timeout error of the phase whatever the
\* call returned, and a call that took no longer than the budget is never
\* reported as a timeout.
C18_TimeoutExactlyOverBudget ==
    Piped =>
        /\ (fn_out.compiled = 1 /\ fn_in.compile_ms > compile_timeout_ms) => CompileTimeout
        /\ (fn_out.ran = 1 /\ fn_in.run_ms > execution_timeout_ms) => ExecutionTimeout
        /\ CompileTimeout => fn_in.compile_ms > compile_timeout_ms
        /\ ExecutionTimeout => fn_in.run_ms > execution_timeout_ms

\* the same without the third part: a compile reported as a timeout may have
\* taken no longer than the budget
C18_OverBudgetIsTimeout ==
    Piped =>
        /\ (fn_out.compiled = 1 /\ fn_in.compile_ms > compile_timeout_ms) => CompileTimeout
        /\ (fn_out.ran = 1 /\ fn_in.run_ms > execution_timeout_ms) => ExecutionTimeout
        /\ CompileTimeout => fn_in.prep + fn_in.compile_ms > compile_timeout_ms
        /\ ExecutionTimeout => fn_in.run_ms > execution_timeout_ms

Carries(kind, text) ==
    /\ fn_out.result.ok = "err"
    /\ fn_out.result.v.kind = kind
    /\ "detail" \in DOMAIN fn_out.result.v
    /\ fn_out.result.v.detail = text

CompileInBudget == fn_in.prep + fn_in.compile_ms <= compile_timeout_ms

C19_RunWitness ==
    /\ Piped
    /\ fn_out.ran = 1
    /\ fn_in.env.run = "nonzero"
    /\ Carries("Runtime", fn_in.env.errors)

(***************************************************************************)
(* Program synthesis (src/src/repl.rs, generate_rust_program).  The        *)
(* program is the sequence of the pieces pushed onto the string: one per   *)
(* import line, one per function block, and the entry point.  A HashSet    *)
(* and a HashMap are iterated in an order the code does not control:       *)
(* import_order and function_order are the orders of one call.             *)
(***************************************************************************)
Piece(kind, text) == [kind |-> kind, text |-> text]

\* the entry point around the snippet: a statement as it is, an expression
\* bound to result and printed with {:?}
EntryPoint(code) ==
    <<"\n", "f", "n", " ", "m", "a", "i", "n", "(", ")", " ", "{", "\n">> \o
    (IF \/ EndsWith(Trim(code), <<";">>)
        \/ Contains(code, <<"l", "e", "t", " ">>)
        \/ Contains(code, <<"f", "n", " ">>)
     THEN <<" ", " ", " ", " ">> \o code \o <<"\n">>
     ELSE <<" ", " ", " ", " ", "l", "e", "t", " ", "r", "e", "s", "u", "l", "t",
          " ", "=", " ">> \o code \o <<";", "\n">>
          \o <<" ", " ", " ", " ", "p", "r", "i", "n", "t", "l", "n", "!", "(", Quote,
          "{", ":", "?", "}", Quote, ",", " ", "r", "e", "s", "u", "l", "t", ")",
          ";", "\n">>)
    \o <<"}", "\n">>

\* the lines of a Vec<String> collected into a HashSet
UniqueImports(imps) == {imps[i] : i \in 1..Len(imps)}

\* import_order enumerates UniqueImports(imps), function_order the keys of funcs
generate_rust_program(code, imps, funcs, import_order, function_order) ==
    [i \in 1..Len(import_order) |-> Piece("import", import_order[i])]
    \o [i \in 1..Len(function_order) |-> Piece("function", funcs[function_order[i]])]
    \o <<Piece("main", EntryPoint(code))>>

(***************************************************************************)
(* Synthesis as a function of the context: the snippet and the imports of  *)
(* the context are drawn in the initial state, one action synthesizes.     *)
(***************************************************************************)
LineStatement == <<"f", "(", ")", ";">>

Snippets == {LineSum, LineLet, LineStatement, LineInt}

Generating(code) == [f |-> "generate_rust_program", code |-> code]

\* the context before and after run_interactive has merged a prelude
InitGen ==
    /\ session = "new"
    /\ variables = <<>>
    /\ functions = <<>>
    /\ \/ imports = DefaultImports
       \/ \E prelude \in Preludes : imports = MergePrelude(DefaultImports, prelude)
    /\ code_history = <<>>
    /\ multiline_mode = FALSE
    /\ prompt_multiline = FALSE
    /\ continuation_buffer = <<>>
    /\ exe_exists = FALSE
    /\ steps = 0
    /\ last = Observe("none", <<>>, <<>>, NotRun(<<>>, FALSE), NoResult, NoResult)
    /\ fn_out = Pending
    /\ \E code \in Snippets : fn_in = Generating(code)

Generate ==
    /\ fn_in.f = "generate_rust_program"
    /\ fn_out.tag = "Pending"
    /\ \E import_order \in Orders(UniqueImports(imports)) :
       \E function_order \in Orders(DOMAIN functions) :
          fn_out' = [tag |-> "Generated",
                     program |-> generate_rust_program(fn_in.code, imports, functions,
                                                       import_order, function_order)]
    /\ UNCHANGED <<replVars, fn_in>>

NextGen == Generate

SpecGen == InitGen /\ [][NextGen]_vars

(***************************************************************************)
(* Claims about program synthesis (SpecGen).                               *)
(***************************************************************************)
Generated == fn_in.f = "generate_rust_program" /\ fn_out.tag = "Generated"

\* the positions of the pieces of one kind, and their texts in program order
PiecesAt(kind) == {i \in 1..Len(fn_out.program) : fn_out.program[i].kind = kind}

ImportsEmitted ==
    [n \in 1..Cardinality(PiecesAt("import")) |->
        fn_out.program[CHOOSE i \in PiecesAt("import") :
                          Cardinality({j \in PiecesAt("import") : j <= i}) = n].text]

\* the distinct lines of a list, each at its first place
RECURSIVE Distinct(_)
Distinct(lines) ==
    IF lines = <<>> THEN <<>>
    ELSE LET front == Distinct(SubSeq(lines, 1, Len(lines) - 1))
         IN  IF \E i \in 1..Len(front) : front[i] = lines[Len(lines)]
             THEN front ELSE Append(front, lines[Len(lines)])

\* the sections are in order: imports, then functions, then one entry point
\* that contains the snippet
SectionsInOrder ==
    /\ \A i \in PiecesAt("import"), j \in PiecesAt("function") \cup PiecesAt("main") : i < j
    /\ \A i \in PiecesAt("function"), j \in PiecesAt("main") : i < j
    /\ PiecesAt("main") = {Len(fn_out.program)}
    /\ Contains(fn_out.program[Len(fn_out.program)].text, fn_in.code)
    /\ Cardinality(PiecesAt("function")) = Cardinality(DOMAIN functions)

\* C20: the program holds every distinct import line of the context exactly
\* once and in the order of accumulation, then every function block, then one
\* entry point containing the snippet; no import line follows a function
\* block or the entry point.
C20_ProgramInAccumulationOrder ==
    Generated => SectionsInOrder /\ ImportsEmitted = Distinct(imports)

\* the same without the order of the import lines among themselves
C20_ProgramSections ==
    Generated =>
        /\ SectionsInOrder
        /\ Len(ImportsEmitted) = Len(Distinct(imports))
        /\ \A k \in 1..Len(imports) :
              Cardinality({n \in 1..Len(ImportsEmitted) : ImportsEmitted[n] = imports[k]}) = 1


(***************************************************************************)
(* Claims about the continuation buffer and the meta-commands (Spec).      *)
(***************************************************************************)
\* C21: when a complete line arrives while the continuation buffer holds text,
\* the text handed to evaluation is the buffer - the buffered lines in the
\* order they came, each followed by a line break - followed by the new line,
\* and the buffer is empty and both multi-line flags are off when evaluation
\* has returned, with a value or with an error.
C21_ContinuationCombined ==
    [][/\ last'.op = "buffered"
          => continuation_buffer' =
                 continuation_buffer \o Trim(last'.line) \o <<"\n">>
       /\ (last'.op = "executed" /\ continuation_buffer # <<>>)
          => /\ last'.input = continuation_buffer \o Trim(last'.line)
             /\ continuation_buffer' = <<>>
             /\ ~multiline_mode'
             /\ ~prompt_multiline']_vars

C21_Witness ==
    /\ last.op = "executed"
    /\ last.input = LineCall \o <<"\n">> \o LineBrace \o <<"\n">> \o LineInt
    /\ last.result.ok = "err"
    /\ continuation_buffer = <<>>
    /\ ~multiline_mode
    /\ ~prompt_multiline

MetaCommands ==
    {<<"e", "x", "i", "t", "(", ")">>, <<"q", "u", "i", "t", "(", ")">>,
     <<"h", "e", "l", "p", "(", ")">>, <<"c", "l", "e", "a", "r", "(", ")">>,
     <<"v", "a", "r", "s", "(", ")">>,
     <<"h", "i", "s", "t", "o", "r", "y", "(", ")">>}

LineHandled == last.op \in {"special", "buffered", "executed", "execute_line"}

\* C22: a line that is one of exit(), quit(), help(), clear(), vars() and
\* history() reaches neither the fast evaluator nor the pipeline and leaves the
\* variables, the functions, the history and the continuation buffer as they
\* were, also when the buffer holds text.
C22_MetaCommandsHandled ==
    [][(LineHandled' /\ Trim(last'.line) \in MetaCommands)
       => /\ last'.fast.ok = "none"
          /\ last'.pipe.ok = "none"
          /\ last'.pipe_args = <<>>
          /\ variables' = variables
          /\ functions' = functions
          /\ code_history' = code_history
          /\ continuation_buffer' = continuation_buffer]_vars

C22_Witness ==
    /\ last.op = "special"
    /\ last.line = LineVars
    /\ session = "running"
    /\ continuation_buffer = LineCall \o <<"\n">>
    /\ last.fast.ok = "none"

\* C27: in every state of the session both multi-line flags are on exactly
\* when the continuation buffer holds text.
C27_FlagsFollowBuffer ==
    /\ multiline_mode = (continuation_buffer # <<>>)
    /\ prompt_multiline = (continuation_buffer # <<>>)

C27_Witness ==
    /\ last.op = "buffered"
    /\ session = "running"
    /\ continuation_buffer = LineCall \o <<"\n">> \o LineBrace \o <<"\n">>
    /\ multiline_mode
    /\ prompt_multiline

Closer(c) == CASE c = "{" -> "}" [] c = "(" -> ")" [] c = "[" -> "]"

\* the opening brackets of the text that no later bracket closes
RECURSIVE OpenBrackets(_, _)
OpenBrackets(text, stack) ==
    IF text = <<>> THEN stack
    ELSE IF Head(text) \in {"{", "(", "["}
    THEN OpenBrackets(Tail(text), Append(stack, Head(text)))
    ELSE IF stack # <<>> /\ Head(text) = Closer(stack[Len(stack)])
    THEN OpenBrackets(Tail(text), SubSeq(stack, 1, Len(stack) - 1))
    ELSE OpenBrackets(Tail(text), stack)

Unclosed(text) == OpenBrackets(text, <<>>) # <<>>

\* C29: the text assembled from the continuation buffer and the line that
\* completes it is never handed to evaluation with a brace, parenthesis or
\* bracket still open.
C29_NoUnclosedBracketEvaluated ==
    (last.op = "executed" /\ last.input # Trim(last.line))
    => ~Unclosed(last.input)

(***************************************************************************)
(* Claims about the output and the equality of the evaluator (SpecEval).   *)
(***************************************************************************)
\* print(...) or println(...) has been evaluated
PrintEvaluated ==
    /\ Evaluated
    /\ fn_in.expr.node = "Call"
    /\ fn_in.expr.func.node = "Path"
    /\ Join(fn_in.expr.func.segments, <<":", ":">>) \in {M_print, M_println}

\* what the evaluations of the first n arguments of the call wrote themselves
RECURSIVE ArgumentsOut(_)
ArgumentsOut(n) ==
    IF n = 0 THEN <<>>
    ELSE ArgumentsOut(n - 1) \o Sub(fn_in.expr.args[n]).out

\* the arguments of the call that fail, when evaluated on their own
FailingArguments ==
    {i \in 1..Len(fn_in.expr.args) : Sub(fn_in.expr.args[i]).ok # "ok"}

FirstFailing == CHOOSE i \in FailingArguments : \A j \in FailingArguments : i <= j

\* the display strings of the arguments, one space between two of them
DisplayLine ==
    Join([i \in 1..Len(fn_in.expr.args) |->
             to_display_string(Sub(fn_in.expr.args[i]).v)], <<" ">>)

\* C23: print and println evaluate their arguments from left to right before
\* they write.  When an argument fails the call fails with that argument's
\* error and has written nothing itself: the output holds only what the
\* arguments up to the failing one wrote.  When all succeed the call writes
\* the display strings of the arguments with one space between them, println
\* a line break after them, and returns Unit.
C23_PrintAfterArguments ==
    PrintEvaluated =>
        IF FailingArguments # {}
        THEN /\ fn_out.result.ok = Sub(fn_in.expr.args[FirstFailing]).ok
             /\ fn_out.result.v = Sub(fn_in.expr.args[FirstFailing]).v
             /\ fn_out.result.out = ArgumentsOut(FirstFailing)
        ELSE /\ fn_out.result.ok = "ok"
             /\ fn_out.result.v.tag = "Unit"
             /\ fn_out.result.out =
                    ArgumentsOut(Len(fn_in.expr.args)) \o DisplayLine
                    \o (IF fn_in.expr.func.segments = <<M_println>>
                        THEN <<"\n">> ELSE <<>>)

\* println("ab", 2) has written its line
C23_Witness ==
    /\ PrintEvaluated
    /\ fn_in.expr.func.segments = <<M_println>>
    /\ Len(fn_in.expr.args) = 2
    /\ fn_out.result.ok = "ok"
    /\ fn_out.result.out = <<"a", "b", " ", "2", "\n">>

\* print("ab", 1 / 0) has failed and has written nothing
C23_FailureWitness ==
    /\ PrintEvaluated
    /\ fn_in.expr.args = <<LitStr(<<"a", "b">>), DivByZero>>
    /\ fn_out.result.ok = "err"
    /\ fn_out.result.out = <<>>

\* C24: an evaluation that fails has written nothing to the standard output,
\* whatever the shape of the expression: also when a print call in an earlier
\* element or operand is followed by a sub-expression that fails.
C24_FailureWritesNothing ==
    (Evaluated /\ fn_out.result.ok # "ok") => fn_out.result.out = <<>>

\* v == v or v != v has been evaluated, v a value the evaluator produced
SelfCompared ==
    /\ Evaluated
    /\ fn_in.expr.node = "Binary"
    /\ fn_in.expr.op \in {"Eq", "Ne"}
    /\ fn_in.expr.left.node = "Path"
    /\ fn_in.expr.right.node = "Path"
    /\ fn_in.expr.left.segments = fn_in.expr.right.segments
    /\ Sub(fn_in.expr.left).ok = "ok"

\* C28: for every value v the evaluator can produce, arrays and maps
\* included, v == v is Boolean(true) and v != v is Boolean(false).
C28_EqualityReflexive ==
    SelfCompared
    => /\ fn_out.result.ok = "ok"
       /\ fn_out.result.v.tag = "Boolean"
       /\ fn_out.result.v.v = (fn_in.expr.op = "Eq")

(***************************************************************************)
(* Integer arithmetic at the limits of i64 (src/src/eval.rs).  An i64 near *)
(* a limit is written k * 2^63 + s with k in {-1, 0, 1} and s small:       *)
(* i64::MAX is Wide(1, -1), i64::MIN is Wide(-1, 0).  The exact result of  *)
(* an operation is c0 + c1 * 2^63 + c2 * 2^126 with small c0, c1 and c2.   *)
(* The operators +, -, * and unary - of Rust abort on overflow in a build  *)
(* with overflow checks (the dev profile) and wrap modulo 2^64 in a build  *)
(* without them (the release profile); % aborts on i64::MIN % -1 in both.  *)
(***************************************************************************)
Wide(k, s) == [k |-> k, s |-> s]

Exact(c0, c1, c2) == [c0 |-> c0, c1 |-> c1, c2 |-> c2]

I64_MAX == Wide(1, 0 - 1)

I64_MIN == Wide(0 - 1, 0)

\* the exact result is an i64
Fits(x) ==
    /\ x.c2 = 0
    /\ \/ x.c1 = 0
       \/ x.c1 = 1 /\ x.c0 < 0
       \/ x.c1 = 0 - 1 /\ x.c0 >= 0

\* the exact result modulo 2^64, as an i64: 2^126 and 2 * 2^63 vanish
Wrapped(x) ==
    IF x.c1 % 2 = 0 THEN Wide(0, x.c0)
    ELSE IF x.c0 < 0 THEN Wide(1, x.c0)
    ELSE Wide(0 - 1, x.c0)

IntOk(v) == [ok |-> "ok", v |-> v, msg |-> "Integer"]

IntErr(m) == [ok |-> "err", v |-> Wide(0, 0), msg |-> m]

IntPanic(m) == [ok |-> "panic", v |-> Wide(0, 0), msg |-> m]

\* the outcomes of an arithmetic operator whose exact result is x
Checked(x, m) ==
    IF Fits(x) THEN {IntOk(Wrapped(x))}
    ELSE {IntPanic(m), IntOk(Wrapped(x))}

\* (Integer(a), Integer(b)) => Ok(Integer(a + b))
add_integers(a, b) ==
    Checked(Exact(a.s + b.s, a.k + b.k, 0), "attempt to add with overflow")

\* (Integer(a), Integer(b)) => Ok(Integer(a - b))
sub_integers(a, b) ==
    Checked(Exact(a.s - b.s, a.k - b.k, 0), "attempt to subtract with overflow")

\* (Integer(a), Integer(b)) => Ok(Integer(a * b))
mul_integers(a, b) ==
    Checked(Exact(a.s * b.s, a.s * b.k + b.s * a.k, a.k * b.k),
            "attempt to multiply with overflow")

\* Integer(i) => Ok(Integer(-i))
neg_integer(i) ==
    Checked(Exact(0 - i.s, 0 - i.k, 0), "attempt to negate with overflow")

\* 2^n modulo m
RECURSIVE Pow2Mod(_, _)
Pow2Mod(n, m) == IF n = 0 THEN 1 % m ELSE (2 * Pow2Mod(n - 1, m)) % m

\* 2^63 - |a| of an i64 near a limit
Below(a) == IF a.k = 1 THEN 0 - a.s ELSE a.s

\* a % b of i64, b # 0 and not i64::MIN % -1: the sign of the dividend
Remainder(a, b) ==
    IF a.k = 0 /\ b.k = 0
    THEN Wide(0, (IF a.s < 0 THEN 0 - 1 ELSE 1) * (Abs(a.s) % Abs(b.s)))
    ELSE IF a.k = 0 THEN a
    ELSE IF b.k = 0
    THEN Wide(0, a.k * ((Pow2Mod(63, Abs(b.s)) - Below(a)) % Abs(b.s)))
    ELSE IF Below(a) > Below(b) THEN a
    ELSE Wide(0, a.k * (Below(b) - Below(a)))

\* changed: the remainder of i64::MIN by -1 is 0
rem_integers_wrapping(a, b) ==
    IF b = Wide(0, 0) THEN {IntErr("Division by zero")}
    ELSE {IntOk(Remainder(a, b))}

\* (Integer(a), Integer(b)) => if b == 0 { Err(..) } else { Ok(Integer(a % b)) }
rem_integers(a, b) ==
    IF b = Wide(0, 0) THEN {IntErr("Division by zero")}
    ELSE IF a = I64_MIN /\ b = Wide(0, 0 - 1)
    THEN {IntPanic("attempt to calculate the remainder with overflow")}
    ELSE {IntOk(Remainder(a, b))}

I64Values ==
    {Wide(0, s) : s \in (0 - MaxOffset)..MaxOffset}
    \cup {Wide(1, 0 - s) : s \in 1..MaxOffset}
    \cup {Wide(0 - 1, s) : s \in 0..(MaxOffset - 1)}

IntOps == {"Add", "Sub", "Mul", "Rem"}

Applying(op, a, b) == [f |-> "integers", op |-> op, left |-> a, right |-> b]

InitInt ==
    /\ InitRepl
    /\ fn_out = Pending
    /\ \/ \E op \in IntOps, a \in I64Values, b \in I64Values :
             fn_in = Applying(op, a, b)
       \/ \E a \in I64Values : fn_in = Applying("Neg", a, a)

\* evaluate_binary on two Integers
ApplyBinary ==
    /\ fn_in.f = "integers"
    /\ fn_in.op \in IntOps
    /\ fn_out.tag = "Pending"
    /\ \E r \in CASE fn_in.op = "Add" -> add_integers(fn_in.left, fn_in.right)
                  [] fn_in.op = "Sub" -> sub_integers(fn_in.left, fn_in.right)
                  [] fn_in.op = "Mul" -> mul_integers(fn_in.left, fn_in.right)
                  [] fn_in.op = "Rem" -> rem_integers(fn_in.left, fn_in.right) :
          fn_out' = [tag |-> "Applied", result |-> r]
    /\ UNCHANGED <<replVars, fn_in>>

\* evaluate_unary, UnOp::Neg, on an Integer
ApplyNeg ==
    /\ fn_in.f = "integers"
    /\ fn_in.op = "Neg"
    /\ fn_out.tag = "Pending"
    /\ \E r \in neg_integer(fn_in.left) :
          fn_out' = [tag |-> "Applied", result |-> r]
    /\ UNCHANGED <<replVars, fn_in>>

NextInt == ApplyBinary \/ ApplyNeg

SpecInt == InitInt /\ [][NextInt]_vars

(***************************************************************************)
(* Claims about Integer arithmetic (SpecInt).                              *)
(***************************************************************************)
Applied == fn_in.f = "integers" /\ fn_out.tag = "Applied"

\* C25: for all i64 a and b, a + b, a - b, a * b, -a and a % b with b # 0
\* return an Integer or an error value and never abort, also when the exact
\* result lies outside i64: i64::MAX + 1, -i64::MIN, i64::MIN % -1.
C25_IntegerArithmeticNeverAborts ==
    Applied => fn_out.result.ok \in {"ok", "err"}

\* within i64 the operators return the exact result
C25_ExactWithinRange ==
    (Applied /\ fn_in.op = "Add" /\ fn_in.left.k = 0 /\ fn_in.right.k = 0)
    => fn_out.result = IntOk(Wide(0, fn_in.left.s + fn_in.right.s))

(***************************************************************************)
(* Claims about the termination of the shell (SpecShell).                  *)
(***************************************************************************)
\* the call of execute_command has returned
Returned == fn_out.route[Len(fn_out.route)] # "diverges"

\* C30: execute_command terminates for every command and every alias table
\* the alias built-in can build, also when an alias expands to a command
\* whose leading token is an alias again (a=a, or a=b together with b=a).
C30_ExecuteCommandTerminates ==
    Dispatched => Returned

\* replacements that end: `a a` under the alias a= becomes `a`, then nothing
C30_ChainEnds ==
    /\ Dispatched
    /\ fn_out.command = <<"a", " ", "a">>
    /\ fn_out.route = <<"alias", "alias", "empty">>
    /\ fn_out.result.ok = "ok"
=============================================================================
